---- MODULE Spec2Model ----
(***************************************************************************)
(* Transactional outbox of the SBOM service: the outbox_events table, the  *)
(* producers that enqueue into it (EnqueueOutboxEvent) and the dispatcher  *)
(* replicas that claim, publish and finalise its rows                      *)
(* (internal/services/kafka_manager.go).                                   *)
(***************************************************************************)
EXTENDS Integers, Sequences, FiniteSets, TLC

(* ---------------------------------------------------------------------- *)
(* Bounds of the model                                                     *)
(* ---------------------------------------------------------------------- *)
NumDispatchers == 2
MaxRows == 2
MaxTime == 1
MaxBrokerFailures == 2
BatchRows == 21
LiveRows == 1
MaxStream == 2
QuotaLimit == 2
MaxRetryAttempt == 2
NumCallers == 2
MaxDelayCalls == 7

Dispatchers == 1..NumDispatchers

\* goroutines that call getKafkaWriter at the same time
Callers == 1..NumCallers

(* ---------------------------------------------------------------------- *)
(* Program constants                                                       *)
(* ---------------------------------------------------------------------- *)
outboxStatusPending == "pending"
outboxStatusProcessing == "processing"
outboxStatusRetry == "retrying"
outboxStatusSent == "sent"
outboxStatusFailed == "failed"
maxOutboxAttempts == 12
batchSize == 20
maxDelaySeconds == 300

\* SQL NULL of a timestamp column, of a text column, and a nil Go payload
NULL == -1
NullText == "NULL"
NilPayload == "nil"

ErrInvalidOutboxMessage == "invalid outbox message"
ErrDatabase == "database error"
ErrBroker == "broker write failed"
RetNil == "nil"

(* ---------------------------------------------------------------------- *)
(* Inputs: the messages producers hand to EnqueueOutboxEvent               *)
(* ---------------------------------------------------------------------- *)
Messages ==
    { [Topic |-> "sbom-events", Payload |-> "a", DedupKey |-> "k1"],
      [Topic |-> "sbom-events", Payload |-> "b", DedupKey |-> "k1"],
      [Topic |-> "sbom-events", Payload |-> "a", DedupKey |-> ""],
      [Topic |-> "", Payload |-> "a", DedupKey |-> "k1"],
      [Topic |-> "sbom-events", Payload |-> NilPayload, DedupKey |-> ""] }

\* attempts of the rows a table may already hold when the replicas start:
\* rows whose retry is due, one and two failures away from the attempt cap
InitAttempts == {10, 11}

VARIABLES
    outbox,       \* the outbox_events table: sequence of rows, id = index
    now,          \* database clock NOW(), seconds
    pc,           \* per dispatcher replica: position in run/dispatchBatch
    events,       \* per replica: the batch returned by claimPendingEvents
    idx,          \* per replica: index of the event the batch loop is at
    pubErr,       \* per replica: error of its last publishEvent
    published,    \* broker: per row id, messages successfully written
    recorded,     \* per row id, publish failures recorded by markFailed
    lastEnqueue,  \* outcome of the last EnqueueOutboxEvent
    brokerFailures, \* number of failed broker writes so far
    stream,       \* the partition of code-scan-results the reader is assigned
    pos,          \* offset of the message FetchMessage returned last, 0 = none
    cpc,          \* position of the consumer goroutine in its loop
    ctxDone,      \* the context of main has been cancelled
    retry,        \* attempt counter of the retryBackoff of the current message
    committed,    \* offsets CommitMessages has acknowledged
    outcome,      \* per offset: what processCodeScanMessage returned last
    dlqCalls,     \* per offset: calls of publishCodeScanDLQ
    dlqWritten,   \* per offset: records the DLQ topic holds
    sboms,        \* the sboms table: sequence of rows, id = index
    usage,        \* sbom_upload units consumed by the organization
    lastHandle,   \* what the last handleCodeScanDone did
    snap,         \* state left by the first completed handling of a message
    closes,       \* Close calls on the reader and on the DLQ writer
    wpool,        \* kafkaWriterPool: per topic the writer stored, 0 = none
    writers,      \* every kafka.Writer constructed so far: "open" or "closed"
    getters,      \* per goroutine calling getKafkaWriter: where it is
    backoff,      \* a retryBackoff and what its last nextDelay returned
    codec,        \* the fields a message carries and what each shape decodes to
    ups,          \* the sboms table under concurrent UpsertSBOM calls, and the calls
    shut          \* main on its way out: position, path, database handle

consumerVars == <<stream, pos, cpc, ctxDone, retry, committed, outcome,
                  dlqCalls, dlqWritten, sboms, usage, lastHandle, snap>>

poolVars == <<wpool, writers, getters>>

\* state of the parts that are checked on their own
auxVars == <<backoff, codec, ups, shut>>

vars == <<outbox, now, pc, events, idx, pubErr, published, recorded,
          lastEnqueue, brokerFailures, consumerVars, closes, poolVars, auxVars>>

RowIds == 1..Len(outbox)

\* ids a row can have in any of the specifications below
RowSpace == 1..(IF MaxRows >= BatchRows THEN MaxRows ELSE BatchRows)

RECURSIVE Pow2(_)
Pow2(n) == IF n <= 0 THEN 1 ELSE 2 * Pow2(n - 1)

\* variant: the delay is not capped
exponentialDelayUncapped(attempt) == Pow2(attempt)

\* exponentialDelay: 2^attempt seconds, capped at 5 minutes
exponentialDelay(attempt) ==
    IF Pow2(attempt) > maxDelaySeconds THEN maxDelaySeconds ELSE Pow2(attempt)

\* NULLIF($8, ''): an empty dedup key is stored as NULL
NullIfEmpty(s) == IF s = "" THEN NullText ELSE s

\* columns the INSERT does not name take the defaults of the table
DefaultColumns(t) ==
    [attempts |-> 0, next_retry_at |-> NULL, last_error |-> NullText, created_at |-> t]

\* the row the INSERT of EnqueueOutboxEvent writes
NewRow(msg) ==
    [ topic |-> msg.Topic,
      payload |-> msg.Payload,
      dedup_key |-> NullIfEmpty(msg.DedupKey),
      status |-> outboxStatusPending,
      attempts |-> DefaultColumns(now).attempts,
      next_retry_at |-> DefaultColumns(now).next_retry_at,
      last_error |-> DefaultColumns(now).last_error,
      created_at |-> DefaultColumns(now).created_at ]

\* a row left behind by earlier runs: a failed publish recorded, retry due
DueRetryRow(a) ==
    [ topic |-> "sbom-events",
      payload |-> "a",
      dedup_key |-> NullText,
      status |-> outboxStatusRetry,
      attempts |-> a,
      next_retry_at |-> 0,
      last_error |-> ErrBroker,
      created_at |-> 0 ]

\* no EnqueueOutboxEvent call has returned yet
NoEnqueue == [msg |-> [Topic |-> "", Payload |-> NilPayload, DedupKey |-> ""],
              ret |-> "none", inserted |-> FALSE, found |-> "none"]

\* a row as EnqueueOutboxEvent inserted it at time t, not yet claimed
PendingRow(t) ==
    [ topic |-> "sbom-events",
      payload |-> "a",
      dedup_key |-> NullText,
      status |-> outboxStatusPending,
      attempts |-> 0,
      next_retry_at |-> NULL,
      last_error |-> NullText,
      created_at |-> t ]

(* ---------------------------------------------------------------------- *)
(* Inputs: the messages of code-scan-results, as decodeCodeScanEvent reads *)
(* them (internal/services/code_scan_consumer.go)                          *)
(* ---------------------------------------------------------------------- *)
\* the characters of the strings the messages carry
Chars(s) ==
    CASE s = "" -> <<>>
      [] s = " " -> <<" ">>
      [] s = "web" -> <<"w", "e", "b">>
      [] s = "CODE_SCAN_DONE" ->
            <<"C", "O", "D", "E", "_", "S", "C", "A", "N", "_", "D", "O", "N", "E">>
      [] s = "CODE_SCAN_STARTED" ->
            <<"C", "O", "D", "E", "_", "S", "C", "A", "N", "_",
              "S", "T", "A", "R", "T", "E", "D">>
      [] s = "code.scan.done" ->
            <<"c", "o", "d", "e", ".", "s", "c", "a", "n", ".", "d", "o", "n", "e">>
      [] s = "code.scan.started" ->
            <<"c", "o", "d", "e", ".", "s", "c", "a", "n", ".",
              "s", "t", "a", "r", "t", "e", "d">>
      [] s = " code.scan.done " ->
            <<" ", "c", "o", "d", "e", ".", "s", "c", "a", "n", ".", "d", "o", "n", "e", " ">>

RECURSIVE Join(_)
\* the string made of the characters
Join(cs) == IF cs = <<>> THEN "" ELSE Head(cs) \o Join(Tail(cs))

RECURSIVE TrimLeft(_)
TrimLeft(cs) == IF cs # <<>> /\ Head(cs) = " " THEN TrimLeft(Tail(cs)) ELSE cs

RECURSIVE TrimRight(_)
TrimRight(cs) ==
    IF cs # <<>> /\ cs[Len(cs)] = " " THEN TrimRight(SubSeq(cs, 1, Len(cs) - 1)) ELSE cs

\* strings.TrimSpace
TrimSpace(s) == Join(TrimRight(TrimLeft(Chars(s))))

LowerCase == <<"a", "b", "c", "d", "e", "f", "g", "h", "i", "j", "k", "l", "m",
               "n", "o", "p", "q", "r", "s", "t", "u", "v", "w", "x", "y", "z">>
UpperCase == <<"A", "B", "C", "D", "E", "F", "G", "H", "I", "J", "K", "L", "M",
               "N", "O", "P", "Q", "R", "S", "T", "U", "V", "W", "X", "Y", "Z">>

\* strings.ToUpper on the characters
ToUpper(cs) ==
    [i \in DOMAIN cs |->
        IF \E k \in DOMAIN LowerCase : LowerCase[k] = cs[i]
        THEN UpperCase[CHOOSE k \in DOMAIN LowerCase : LowerCase[k] = cs[i]]
        ELSE cs[i]]

\* strings.ReplaceAll(candidate, ".", "_") on the characters
ReplaceDots(cs) == [i \in DOMAIN cs |-> IF cs[i] = "." THEN "_" ELSE cs[i]]

\* variant: the event type is trimmed only
normalizeEventTypeTrimOnly(primary, fallback) ==
    IF TrimSpace(primary) = "" THEN TrimSpace(fallback) ELSE TrimSpace(primary)

\* normalizeEventType: trimmed, upper case, dots replaced by underscores
normalizeEventType(primary, fallback) ==
    LET candidate == IF TrimSpace(primary) = ""
                     THEN TrimRight(TrimLeft(Chars(fallback)))
                     ELSE TrimRight(TrimLeft(Chars(primary)))
    IN  Join(ReplaceDots(ToUpper(candidate)))

\* a time.Time: the instant and the zone offset it was written with
Time(instant, zone) == [instant |-> instant, zone |-> zone]

\* a message of the topic: Decodes is whether json.Unmarshal accepts its
\* bytes, the other fields are the CodeScanEvent decodeCodeScanEvent returns
CodeScanEvent(decodes, eventType, projectID, timestamp, manifests, findings) ==
    [ Decodes |-> decodes,
      EventType |-> eventType,
      ProjectID |-> projectID,
      Project |-> "web",
      Timestamp |-> timestamp,
      Manifests |-> manifests,
      Findings |-> findings ]

GoMod == [name |-> "go.mod", content |-> "module web"]
PackageJSON == [name |-> "package.json", content |-> "{}"]
EmptyManifest == [name |-> "empty.txt", content |-> ""]

\* one manifest
ScanOne == CodeScanEvent(TRUE, "CODE_SCAN_DONE", 42, Time(1, 0), <<GoMod>>, 0)
\* two manifests with content and one without, and findings
ScanTwo == CodeScanEvent(TRUE, "CODE_SCAN_DONE", 42, Time(2, 0), <<GoMod, EmptyManifest, PackageJSON>>, 1)
\* no manifest, findings only
ScanFindings == CodeScanEvent(TRUE, "CODE_SCAN_DONE", 42, Time(3, 7), <<>>, 1)
\* an event type the consumer ignores
ScanStarted == CodeScanEvent(TRUE, "CODE_SCAN_STARTED", 42, Time(4, 0), <<>>, 0)
\* bytes that are no JSON
NotJSON == CodeScanEvent(FALSE, "", 0, Time(0, 0), <<>>, 0)
\* project_id missing
NoProjectID == CodeScanEvent(TRUE, "CODE_SCAN_DONE", 0, Time(5, 0), <<GoMod>>, 0)
\* a project the projects table has no row for
UnknownProject == CodeScanEvent(TRUE, "CODE_SCAN_DONE", 7, Time(6, 0), <<GoMod>>, 0)

\* project is white space
NoProject == [ScanOne EXCEPT !.Project = " ", !.Timestamp = Time(7, 0)]
\* event_type is white space in the legacy shape
NoEventType == CodeScanEvent(TRUE, normalizeEventType(" ", ""), 42, Time(8, 0), <<GoMod>>, 0)
\* event_type in lower case with dots and spaces around it
ScanDotted == CodeScanEvent(TRUE, normalizeEventType(" code.scan.done ", ""), 42, Time(9, 0), <<GoMod>>, 0)
\* an event type the consumer ignores, project_id missing
StartedNoProjectID == CodeScanEvent(TRUE, "CODE_SCAN_STARTED", 0, Time(10, 0), <<>>, 0)

InboundMessages ==
    {ScanOne, ScanTwo, ScanFindings, ScanStarted, NotJSON, NoProjectID, UnknownProject,
     NoProject, NoEventType, ScanDotted, StartedNoProjectID}

\* ids of the rows of the projects table
Projects == {42}

RECURSIVE SeqsUpTo(_, _)
\* the sequences over S of length 0..n
SeqsUpTo(S, n) ==
    IF n = 0 THEN {<<>>}
    ELSE LET shorter == SeqsUpTo(S, n - 1)
         IN  shorter \cup {Append(q, x) : q \in shorter, x \in S}

\* one message for each way processCodeScanMessage can end
LoopMessages == {ScanOne, ScanStarted, NotJSON, NoProjectID, UnknownProject}

\* partitions the broker may hold; a message may be delivered twice
Streams == SeqsUpTo(LoopMessages, MaxStream) \ {<<>>}

Offsets == 1..MaxStream

\* no handleCodeScanDone has run yet
NoHandle ==
    [ ret |-> "none", allowed |-> "none", toCreate |-> 0, successful |-> 0,
      parsed |-> 0, upserts |-> 0, released |-> <<>>, enqueued |-> <<>>,
      okManifests |-> 0, revertFailed |-> FALSE, org |-> "none",
      fallback |-> "none" ]

NoSnap ==
    [taken |-> FALSE, allowed |-> "none", sboms |-> <<>>, outbox |-> <<>>, usage |-> 0, successful |-> 0]

\* the consumer goroutine about to call FetchMessage for the first time
InitConsumer(partition, used) ==
    /\ stream = partition
    /\ pos = 0
    /\ cpc = "fetch"
    /\ ctxDone = FALSE
    /\ retry = 0
    /\ committed = {}
    /\ outcome = [o \in Offsets |-> "none"]
    /\ dlqCalls = [o \in Offsets |-> 0]
    /\ dlqWritten = [o \in Offsets |-> 0]
    /\ sboms = <<>>
    /\ usage = used
    /\ lastHandle = NoHandle
    /\ snap = NoSnap

\* the topics getKafkaWriter is called with
PoolTopics == {"", "sbom-events", "audit-events"}

\* no *kafka.Writer
NoWriter == 0

\* a goroutine that is not inside getKafkaWriter and has not called it yet
IdleGetter == [pc |-> "idle", topic |-> "", local |-> NoWriter, ret |-> "none", writer |-> NoWriter]

\* reader and DLQ writer open, kafkaWriterPool empty
InitWriters ==
    /\ closes = [reader |-> 0, dlqWriter |-> 0]
    /\ wpool = [t \in PoolTopics |-> NoWriter]
    /\ writers = <<>>
    /\ getters = [c \in Callers |-> IdleGetter]

\* min of the package
min(a, b) == IF a < b THEN a ELSE b

\* time.Second and the 50 ms of jitter, in nanoseconds
Second == 1000000000
DefaultJitterWindow == 50000000

\* newRetryBackoff
newRetryBackoff(base, max) ==
    LET b == IF base <= 0 THEN Second ELSE base
    IN  [attempt |-> 0, base |-> b, max |-> IF max < b THEN b ELSE max]

\* no nextDelay has been called on the retryBackoff yet
NoDelay(r) == [r |-> r, calls |-> 0, delay |-> 0, jitter |-> 0, ret |-> 0]

\* the zero time.Time
ZeroTime == Time(0, 0)

\* CodeScanEvent{} with an error: invalid envelope data
DecodeError ==
    [ Decodes |-> FALSE, EventType |-> "", ProjectID |-> 0, Project |-> "",
      Timestamp |-> ZeroTime, Manifests |-> <<>>, Findings |-> 0 ]

\* the fields of a message, the shapes decodeCodeScanEvent was called on,
\* and the event each shape carrying the fields decoded to
Codec(wire) ==
    [wire |-> wire, decoded |-> {}, envelope |-> DecodeError, legacy |-> DecodeError]

\* no message is being decoded
NoWire == Codec([type |-> "", project_name |-> "", data |-> "absent", t |-> ZeroTime,
                 payload |-> [event_type |-> "", project_id |-> 0, project |-> "",
                              project_name |-> "", findings |-> 0, manifests |-> <<>>]])

\* an UpsertSBOM call that has not started
IdleUpsert == [pc |-> "idle", manifest |-> "", found |-> 0, id |-> 0,
               action |-> "none", err |-> "none"]

\* the sboms table of the concurrent calls, with or without a unique index
\* on (project_name, manifest_name), and no call started
Upserts(table, unique) ==
    [table |-> table, unique |-> unique, calls |-> [c \in Callers |-> IdleUpsert]]

\* nobody calls UpsertSBOM concurrently
NoUpserts == Upserts(<<>>, FALSE)

\* main waits in its select: database handle open, nothing closed
MainRunning == [main |-> "select", path |-> "none", db |-> "open", got |-> "none"]

\* the parts checked on their own are at rest
InitAux ==
    /\ backoff = NoDelay(newRetryBackoff(Second, Second))
    /\ codec = NoWire
    /\ ups = NoUpserts
    /\ shut = MainRunning

\* replicas idle at the top of run, nothing published yet by this run
InitDispatchers(table, t) ==
    /\ outbox = table
    /\ now = t
    /\ pc = [d \in Dispatchers |-> "idle"]
    /\ events = [d \in Dispatchers |-> <<>>]
    /\ idx = [d \in Dispatchers |-> 0]
    /\ pubErr = [d \in Dispatchers |-> RetNil]
    /\ published = [r \in RowSpace |-> 0]
    /\ recorded = [r \in RowSpace |-> IF r <= Len(table) THEN table[r].attempts ELSE 0]
    /\ lastEnqueue = NoEnqueue
    /\ brokerFailures = 0

\* the replicas against a partition that holds no message
InitProcess(table, t) ==
    /\ InitDispatchers(table, t)
    /\ InitConsumer(<<>>, 0)
    /\ InitWriters
    /\ InitAux

\* the table is empty or holds one row whose retry is due
Init ==
    \E table \in {<<>>} \cup {<<DueRetryRow(a)>> : a \in InitAttempts} :
        InitProcess(table, 0)

\* the table is empty or holds a row with a dedup key, one failure from the cap
InitEnqueue ==
    \E table \in {<<>>, <<[DueRetryRow(maxOutboxAttempts - 1) EXCEPT !.dedup_key = "k1"]>>} :
        InitProcess(table, 0)

\* more pending rows than one batch takes, inserted one second apart
InitBatch ==
    InitProcess([i \in 1..BatchRows |-> PendingRow(i)], BatchRows)

\* a few rows, fresh or with a retry due, and no producer running
InitLive ==
    \E table \in [1..LiveRows -> {PendingRow(0)} \cup {DueRetryRow(a) : a \in InitAttempts}] :
        InitProcess(table, 0)

(* ---------------------------------------------------------------------- *)
(* EnqueueOutboxEvent                                                      *)
(* ---------------------------------------------------------------------- *)
\* variant: the insert carries no ON CONFLICT arbitration on dedup_key
DedupConflictNever(msg) == FALSE

\* ON CONFLICT (dedup_key): a row with the same non-null dedup key exists
DedupConflict(msg) ==
    /\ msg.DedupKey # ""
    /\ \E r \in RowIds : outbox[r].dedup_key = msg.DedupKey

\* status of the row that holds the dedup key of msg, "none" without one
FoundStatus(msg) ==
    IF \E r \in RowIds : msg.DedupKey # "" /\ outbox[r].dedup_key = msg.DedupKey
    THEN outbox[CHOOSE r \in RowIds : outbox[r].dedup_key = msg.DedupKey].status
    ELSE "none"

Returned(msg, ret, inserted) ==
    [msg |-> msg, ret |-> ret, inserted |-> inserted, found |-> FoundStatus(msg)]

EnqueueOutboxEvent(msg, dbOk) ==
    IF msg.Topic = "" \/ msg.Payload = NilPayload
    THEN /\ lastEnqueue' = Returned(msg, ErrInvalidOutboxMessage, FALSE)
         /\ UNCHANGED outbox
    ELSE IF ~dbOk
    THEN /\ lastEnqueue' = Returned(msg, ErrDatabase, FALSE)
         /\ UNCHANGED outbox
    ELSE IF DedupConflict(msg)
    THEN /\ lastEnqueue' = Returned(msg, RetNil, FALSE)
         /\ UNCHANGED outbox
    ELSE /\ Len(outbox) < MaxRows
         /\ outbox' = Append(outbox, NewRow(msg))
         /\ lastEnqueue' = Returned(msg, RetNil, TRUE)

\* a producer calls EnqueueOutboxEvent with any message; the insert may fail
Enqueue ==
    /\ \E msg \in Messages, dbOk \in BOOLEAN : EnqueueOutboxEvent(msg, dbOk)
    /\ UNCHANGED <<now, pc, events, idx, pubErr, published, recorded, brokerFailures, consumerVars, closes, poolVars, auxVars>>

\* a producer enqueues a well-formed message without dedup key
EnqueuePlain ==
    /\ EnqueueOutboxEvent([Topic |-> "sbom-events", Payload |-> "a", DedupKey |-> ""], TRUE)
    /\ UNCHANGED <<now, pc, events, idx, pubErr, published, recorded, brokerFailures, consumerVars, closes, poolVars, auxVars>>

(* ---------------------------------------------------------------------- *)
(* claimPendingEvents                                                      *)
(* ---------------------------------------------------------------------- *)
\* variant: the WHERE clause filters on next_retry_at only
EligibleAnyStatus(r) ==
    outbox[r].next_retry_at = NULL \/ outbox[r].next_retry_at <= now

\* WHERE status IN (pending, retrying) AND (next_retry_at IS NULL OR <= NOW())
Eligible(r) ==
    /\ outbox[r].status \in {outboxStatusPending, outboxStatusRetry}
    /\ (outbox[r].next_retry_at = NULL \/ outbox[r].next_retry_at <= now)

EventIds(evs) == {evs[i].ID : i \in 1..Len(evs)}

\* variant: the SELECT takes no row locks
RowLockedNever(r) == FALSE

\* FOR UPDATE: the row is locked by a claim transaction that is still open
RowLocked(r) ==
    \E d \in Dispatchers : pc[d] = "claiming" /\ r \in EventIds(events[d])

\* SKIP LOCKED: the rows the SELECT of a new transaction can return
Candidates == {r \in RowIds : Eligible(r) /\ ~RowLocked(r)}

\* variant: ORDER BY created_at DESC
MinCreatedDesc(S) ==
    {r \in S : \A q \in S : outbox[r].created_at >= outbox[q].created_at}

MinCreated(S) ==
    {r \in S : \A q \in S : outbox[r].created_at <= outbox[q].created_at}

\* variant: the SELECT has no LIMIT
RECURSIVE OrderingsNoLimit(_, _)
OrderingsNoLimit(S, n) ==
    IF S = {} THEN {<<>>}
    ELSE UNION { { <<r>> \o t : t \in OrderingsNoLimit(S \ {r}, n) } : r \in MinCreated(S) }

\* ORDER BY created_at ... LIMIT n: every order the database may return,
\* rows of equal created_at in any order
RECURSIVE Orderings(_, _)
Orderings(S, n) ==
    IF n = 0 \/ S = {} THEN {<<>>}
    ELSE UNION { { <<r>> \o t : t \in Orderings(S \ {r}, n - 1) } : r \in MinCreated(S) }

\* rows.Scan into pendingOutboxEvent
Scan(r) ==
    [ID |-> r, Topic |-> outbox[r].topic, Payload |-> outbox[r].payload,
     Attempts |-> outbox[r].attempts]

\* SELECT ... FOR UPDATE SKIP LOCKED LIMIT batchSize inside the transaction;
\* an empty result commits and returns without any change
ClaimSelect(d) ==
    /\ pc[d] = "idle"
    /\ \E ids \in Orderings(Candidates, batchSize) :
          /\ ids # <<>>
          /\ events' = [events EXCEPT ![d] = [i \in 1..Len(ids) |-> Scan(ids[i])]]
    /\ pc' = [pc EXCEPT ![d] = "claiming"]
    /\ UNCHANGED <<outbox, now, idx, pubErr, published, recorded, lastEnqueue, brokerFailures, consumerVars, closes, poolVars, auxVars>>

\* UPDATE ... SET status = processing WHERE id = ANY(ids); COMMIT
ClaimCommit(d) ==
    /\ pc[d] = "claiming"
    /\ outbox' = [r \in RowIds |->
                    IF r \in EventIds(events[d])
                    THEN [outbox[r] EXCEPT !.status = outboxStatusProcessing]
                    ELSE outbox[r]]
    /\ pc' = [pc EXCEPT ![d] = "publish"]
    /\ idx' = [idx EXCEPT ![d] = 1]
    /\ UNCHANGED <<now, events, pubErr, published, recorded, lastEnqueue, brokerFailures, consumerVars, closes, poolVars, auxVars>>

\* the UPDATE or the COMMIT fails: deferred tx.Rollback, the error is returned
ClaimRollback(d) ==
    /\ pc[d] = "claiming"
    /\ pc' = [pc EXCEPT ![d] = "idle"]
    /\ events' = [events EXCEPT ![d] = <<>>]
    /\ UNCHANGED <<outbox, now, idx, pubErr, published, recorded, lastEnqueue, brokerFailures, consumerVars, closes, poolVars, auxVars>>

(* ---------------------------------------------------------------------- *)
(* dispatchBatch: publishEvent, markSent, markFailed                       *)
(* ---------------------------------------------------------------------- *)
CurrentEvent(d) == events[d][idx[d]]

\* getKafkaWriter rejects an empty topic; otherwise the broker write decides
PublishOutcome(d, brokerOk) ==
    LET evt == CurrentEvent(d) IN
         IF evt.Topic = ""
         THEN /\ pubErr' = [pubErr EXCEPT ![d] = ErrInvalidOutboxMessage]
              /\ pc' = [pc EXCEPT ![d] = "markFailed"]
              /\ UNCHANGED <<published, brokerFailures>>
         ELSE IF brokerOk
         THEN /\ published' = [published EXCEPT ![evt.ID] = @ + 1]
              /\ pc' = [pc EXCEPT ![d] = "markSent"]
              /\ UNCHANGED <<pubErr, brokerFailures>>
         ELSE /\ brokerFailures < MaxBrokerFailures
              /\ brokerFailures' = brokerFailures + 1
              /\ pubErr' = [pubErr EXCEPT ![d] = ErrBroker]
              /\ pc' = [pc EXCEPT ![d] = "markFailed"]
              /\ UNCHANGED published

\* publishEvent, the writer taken as given
PublishEvent(d, brokerOk) ==
    /\ pc[d] = "publish"
    /\ PublishOutcome(d, brokerOk)
    /\ UNCHANGED <<outbox, now, events, idx, recorded, lastEnqueue, consumerVars, closes, poolVars, auxVars>>

\* variant: the loop ends at the first event whose publish failed
NextEventStopOnError(d) ==
    IF idx[d] < Len(events[d]) /\ pubErr[d] = RetNil
    THEN /\ idx' = [idx EXCEPT ![d] = @ + 1]
         /\ pc' = [pc EXCEPT ![d] = "publish"]
         /\ UNCHANGED events
    ELSE /\ idx' = [idx EXCEPT ![d] = 0]
         /\ pc' = [pc EXCEPT ![d] = "idle"]
         /\ events' = [events EXCEPT ![d] = <<>>]

\* the for loop of dispatchBatch moves to the next event or returns
NextEvent(d) ==
    IF idx[d] < Len(events[d])
    THEN /\ idx' = [idx EXCEPT ![d] = @ + 1]
         /\ pc' = [pc EXCEPT ![d] = "publish"]
         /\ UNCHANGED events
    ELSE /\ idx' = [idx EXCEPT ![d] = 0]
         /\ pc' = [pc EXCEPT ![d] = "idle"]
         /\ events' = [events EXCEPT ![d] = <<>>]

\* variant: markSent writes the retry status
markSentRowRetrying(row) ==
    [row EXCEPT !.status = outboxStatusRetry,
                !.next_retry_at = NULL,
                !.last_error = NullText]

markSentRow(row) ==
    [row EXCEPT !.status = outboxStatusSent,
                !.next_retry_at = NULL,
                !.last_error = NullText]

\* markSent; a failed UPDATE is only logged
MarkSent(d, dbOk) ==
    /\ pc[d] = "markSent"
    /\ LET evt == CurrentEvent(d) IN
         outbox' = IF dbOk
                   THEN [outbox EXCEPT ![evt.ID] = markSentRow(@)]
                   ELSE outbox
    /\ NextEvent(d)
    /\ UNCHANGED <<now, pubErr, published, recorded, lastEnqueue, brokerFailures, consumerVars, closes, poolVars, auxVars>>

\* variant: the cap is compared with > instead of >=
markFailedStatusAbove(evtAttempts) ==
    IF evtAttempts + 1 > maxOutboxAttempts
    THEN outboxStatusFailed ELSE outboxStatusRetry

\* variant: the cap is compared one attempt early
markFailedStatusEarly(evtAttempts) ==
    IF evtAttempts + 2 >= maxOutboxAttempts
    THEN outboxStatusFailed ELSE outboxStatusRetry

\* status chosen by markFailed from the attempts the claim read
markFailedStatus(evtAttempts) ==
    IF evtAttempts + 1 >= maxOutboxAttempts
    THEN outboxStatusFailed ELSE outboxStatusRetry

\* variant: a retry is scheduled even at the cap
markFailedDelayAtCap(evtAttempts) == exponentialDelay(evtAttempts + 1)

\* the delay markFailed schedules the retry with; none at the cap
markFailedDelay(evtAttempts) ==
    IF evtAttempts + 1 >= maxOutboxAttempts
    THEN 0 ELSE exponentialDelay(evtAttempts + 1)

\* variant: attempts is written from a constant instead of incremented
markFailedRowAttemptsOne(row, evtAttempts, errText) ==
    [row EXCEPT !.status = markFailedStatus(evtAttempts),
                !.attempts = 1,
                !.next_retry_at = IF markFailedDelay(evtAttempts) > 0
                                  THEN now + markFailedDelay(evtAttempts)
                                  ELSE NULL,
                !.last_error = errText]

markFailedRow(row, evtAttempts, errText) ==
    [row EXCEPT !.status = markFailedStatus(evtAttempts),
                !.attempts = @ + 1,
                !.next_retry_at = IF markFailedDelay(evtAttempts) > 0
                                  THEN now + markFailedDelay(evtAttempts)
                                  ELSE NULL,
                !.last_error = errText]

\* markFailed; a failed UPDATE is only logged
MarkFailed(d, dbOk) ==
    /\ pc[d] = "markFailed"
    /\ LET evt == CurrentEvent(d) IN
         IF dbOk
         THEN /\ outbox' = [outbox EXCEPT ![evt.ID] = markFailedRow(@, evt.Attempts, pubErr[d])]
              /\ recorded' = [recorded EXCEPT ![evt.ID] = @ + 1]
         ELSE UNCHANGED <<outbox, recorded>>
    /\ pubErr' = [pubErr EXCEPT ![d] = RetNil]
    /\ NextEvent(d)
    /\ UNCHANGED <<now, published, lastEnqueue, brokerFailures, consumerVars, closes, poolVars, auxVars>>

(* ---------------------------------------------------------------------- *)
(* Environment: replica crash and restart, the clock                       *)
(* ---------------------------------------------------------------------- *)
\* the process dies: its memory is lost, an open transaction is rolled back
Crash(d) ==
    /\ pc[d] # "crashed"
    /\ pc' = [pc EXCEPT ![d] = "crashed"]
    /\ events' = [events EXCEPT ![d] = <<>>]
    /\ idx' = [idx EXCEPT ![d] = 0]
    /\ pubErr' = [pubErr EXCEPT ![d] = RetNil]
    /\ UNCHANGED <<outbox, now, published, recorded, lastEnqueue, brokerFailures, consumerVars, closes, poolVars, auxVars>>

\* main starts again: StartOutboxDispatcher launches a fresh run loop
Restart(d) ==
    /\ pc[d] = "crashed"
    /\ pc' = [pc EXCEPT ![d] = "idle"]
    /\ UNCHANGED <<outbox, now, events, idx, pubErr, published, recorded, lastEnqueue, brokerFailures, consumerVars, closes, poolVars, auxVars>>

Deadlines == {outbox[r].next_retry_at : r \in RowIds} \ {NULL}

\* time passes: by one second, or up to the next retry deadline
AdvanceTime ==
    /\ \E t \in {now + 1} \cup Deadlines :
          /\ t > now
          /\ (t <= MaxTime \/ t \in Deadlines)
          /\ now' = t
    /\ UNCHANGED <<outbox, pc, events, idx, pubErr, published, recorded, lastEnqueue, brokerFailures, consumerVars, closes, poolVars, auxVars>>

(* ---------------------------------------------------------------------- *)
(* Quota gate (internal/services/usage.go)                                 *)
(* ---------------------------------------------------------------------- *)
\* check_and_consume_usage: the amount is consumed when it fits the limit
CheckAndConsumeUsage(used, amount) ==
    [ allowed |-> used + amount <= QuotaLimit,
      used |-> IF used + amount <= QuotaLimit THEN used + amount ELSE used ]

\* revert_usage: gives the amount back
RevertUsage(used, amount) == used - amount

\* variant: the whole reservation is reverted
ReleaseUnusedUsageAll(used, reserved, succeeded, dbOk) ==
    IF dbOk THEN RevertUsage(used, reserved) ELSE used

\* ReleaseUnusedUsage: usage after the call; a failed revert is only logged
ReleaseUnusedUsage(used, reserved, succeeded, dbOk) ==
    IF reserved - succeeded <= 0 THEN used
    ELSE IF dbOk THEN RevertUsage(used, reserved - succeeded)
    ELSE used

(* ---------------------------------------------------------------------- *)
(* UpsertSBOM (internal/services/sbom_crud.go)                             *)
(* ---------------------------------------------------------------------- *)
\* ids of the rows with this project_name and manifest_name
ExistingSBOM(table, project, manifest) ==
    {i \in DOMAIN table :
        table[i].project_name = project /\ table[i].manifest_name = manifest}

MinId(S) == CHOOSE i \in S : \A j \in S : i <= j

\* update the row found in place, or insert a row with a new id
UpsertSBOM(table, project, manifest) ==
    IF ExistingSBOM(table, project, manifest) # {}
    THEN [ table |-> [table EXCEPT ![MinId(ExistingSBOM(table, project, manifest))].source = "auto-code-scan"],
           id |-> MinId(ExistingSBOM(table, project, manifest)),
           action |-> "update" ]
    ELSE [ table |-> Append(table, [project_name |-> project, manifest_name |-> manifest, source |-> "auto-code-scan"]),
           id |-> Len(table) + 1,
           action |-> "create" ]

(* ---------------------------------------------------------------------- *)
(* handleCodeScanDone (internal/services/code_scan_consumer.go)            *)
(* ---------------------------------------------------------------------- *)
KafkaTopic == "sbom-events"
ErrTransient == "transient"
ErrPermanent == "permanent"

\* variant: an event without manifests with content reserves nothing
ToCreateNoFloor(evt) ==
    Cardinality({i \in DOMAIN evt.Manifests : evt.Manifests[i].content # ""})

\* number of manifests with content, 1 when there is none
ToCreate(evt) ==
    LET n == Cardinality({i \in DOMAIN evt.Manifests : evt.Manifests[i].content # ""})
    IN  IF n = 0 THEN 1 ELSE n

\* t.UTC().Format(time.RFC3339Nano): the instant, whatever the zone
FormatUTC(t) == ToString(t.instant)

\* variant: the batch event carries no dedup key
BatchDedupKeyNone(evt) == ""

\* dedup key of the batch event: project id and timestamp of the inbound event
BatchDedupKey(evt) ==
    "sbom-batch:" \o ToString(evt.ProjectID) \o ":" \o FormatUTC(evt.Timestamp)

\* the OutboxMessage queueSBOMBatchEvent enqueues
BatchMessage(evt) ==
    [Topic |-> KafkaTopic, Payload |-> "sbom.batch_created", DedupKey |-> BatchDedupKey(evt)]

\* the OutboxMessage publishKafkaWarning enqueues
Warning(eventType) ==
    [Topic |-> KafkaTopic, Payload |-> eventType, DedupKey |-> ""]

\* what ParseManifest and UpsertSBOM may answer for one manifest
ManifestOutcomes == {"ok", "parse_error", "upsert_error"}

\* one answer per manifest that has content
OutcomeVectors(evt) ==
    {out \in [DOMAIN evt.Manifests -> ManifestOutcomes] :
        \A i \in DOMAIN evt.Manifests : evt.Manifests[i].content = "" => out[i] = "ok"}

\* the manifests with content that ParseManifest and UpsertSBOM accept
OkManifests(evt, out) ==
    {i \in DOMAIN evt.Manifests : evt.Manifests[i].content # "" /\ out[i] = "ok"}

\* state of the manifest loop before its first iteration
LoopStart(table) ==
    [table |-> table, successful |-> 0, created |-> <<>>, manifestName |-> "",
     parsed |-> 0, upserts |-> 0, aborted |-> FALSE]

\* variant: the first manifest that fails ends the loop
ManifestStepAbort(evt, out, i, acc) ==
    IF acc.aborted \/ evt.Manifests[i].content = "" THEN acc
    ELSE IF out[i] = "parse_error"
    THEN [acc EXCEPT !.manifestName = evt.Manifests[i].name, !.parsed = @ + 1, !.aborted = TRUE]
    ELSE IF out[i] = "upsert_error"
    THEN [acc EXCEPT !.manifestName = evt.Manifests[i].name, !.parsed = @ + 1, !.aborted = TRUE]
    ELSE LET up == UpsertSBOM(acc.table, evt.Project, evt.Manifests[i].name)
         IN  [acc EXCEPT !.manifestName = evt.Manifests[i].name,
                         !.parsed = @ + 1,
                         !.table = up.table,
                         !.upserts = @ + 1,
                         !.successful = @ + 1,
                         !.created = Append(@, up.id)]

\* one iteration of the manifest loop
ManifestStep(evt, out, i, acc) ==
    IF evt.Manifests[i].content = "" THEN acc
    ELSE IF out[i] = "parse_error"
    THEN [acc EXCEPT !.manifestName = evt.Manifests[i].name, !.parsed = @ + 1]
    ELSE IF out[i] = "upsert_error"
    THEN [acc EXCEPT !.manifestName = evt.Manifests[i].name, !.parsed = @ + 1]
    ELSE LET up == UpsertSBOM(acc.table, evt.Project, evt.Manifests[i].name)
         IN  [acc EXCEPT !.manifestName = evt.Manifests[i].name,
                         !.parsed = @ + 1,
                         !.table = up.table,
                         !.upserts = @ + 1,
                         !.successful = @ + 1,
                         !.created = Append(@, up.id)]

RECURSIVE ManifestLoop(_, _, _, _)
\* the manifest loop from iteration i on
ManifestLoop(evt, out, i, acc) ==
    IF i > Len(evt.Manifests) THEN acc
    ELSE ManifestLoop(evt, out, i + 1, ManifestStep(evt, out, i, acc))

\* the fallback SBOM built from the findings, upserted under the last
\* manifest name the loop saw
FallbackUpsert(evt, acc) ==
    LET up == UpsertSBOM(acc.table, evt.Project, acc.manifestName)
    IN  [acc EXCEPT !.table = up.table,
                    !.upserts = @ + 1,
                    !.successful = @ + 1,
                    !.created = Append(@, up.id)]

\* variant: a missing row is returned like any other error of the query
OrgLookupFailedTransient(evt) ==
    /\ evt.ProjectID \notin Projects
    /\ \E dbOk \in BOOLEAN : EnqueueOutboxEvent(Warning("sbom.org_lookup_failed"), dbOk)
    /\ lastHandle' = [NoHandle EXCEPT !.ret = ErrTransient,
                                      !.org = "no_rows",
                                      !.enqueued = <<"sbom.org_lookup_failed">>]
    /\ UNCHANGED <<sboms, usage>>

\* the projects table has no row for the project: warning, permanent error
OrgLookupFailed(evt) ==
    /\ evt.ProjectID \notin Projects
    /\ \E dbOk \in BOOLEAN : EnqueueOutboxEvent(Warning("sbom.org_lookup_failed"), dbOk)
    /\ lastHandle' = [NoHandle EXCEPT !.ret = ErrPermanent,
                                      !.org = "no_rows",
                                      !.enqueued = <<"sbom.org_lookup_failed">>]
    /\ UNCHANGED <<sboms, usage>>

\* the organization query fails: transient error
OrgLookupError(evt) ==
    /\ lastHandle' = [NoHandle EXCEPT !.ret = ErrTransient, !.org = "error"]
    /\ UNCHANGED <<outbox, lastEnqueue, sboms, usage>>

\* the usage check fails: warning, the error is returned
UsageCheckError(evt) ==
    /\ evt.ProjectID \in Projects
    /\ \E dbOk \in BOOLEAN : EnqueueOutboxEvent(Warning("sbom.limit_check_failed"), dbOk)
    /\ lastHandle' = [NoHandle EXCEPT !.ret = ErrTransient,
                                      !.org = "found",
                                      !.toCreate = ToCreate(evt),
                                      !.enqueued = <<"sbom.limit_check_failed">>]
    /\ UNCHANGED <<sboms, usage>>

\* variant: the denial is returned as an error
DeniedReturnError == ErrTransient

\* what the handler returns when the quota check denies
DeniedReturn == RetNil

\* variant: the release is deferred before the quota check
DeniedReleasesReserved(evt) == <<<<ToCreate(evt), 0>>>>

\* ReleaseUnusedUsage calls on the denial path: the handler returns before
\* the release is deferred
DeniedReleases(evt) == <<>>

\* the quota check denies: warning, no work
UsageDenied(evt) ==
    /\ evt.ProjectID \in Projects
    /\ ~CheckAndConsumeUsage(usage, ToCreate(evt)).allowed
    /\ \E dbOk \in BOOLEAN : EnqueueOutboxEvent(Warning("sbom.limit_reached"), dbOk)
    /\ lastHandle' = [NoHandle EXCEPT !.ret = DeniedReturn,
                                      !.org = "found",
                                      !.allowed = "no",
                                      !.toCreate = ToCreate(evt),
                                      !.released = DeniedReleases(evt),
                                      !.enqueued = <<"sbom.limit_reached">>]
    /\ usage' = CheckAndConsumeUsage(usage, ToCreate(evt)).used
    /\ UNCHANGED sboms

\* variant: findings alone call for the fallback
FallbackNeededFindingsOnly(evt, loop) == evt.Findings > 0

\* len(createdSBOMs) == 0 && len(evt.Findings) > 0
FallbackNeeded(evt, loop) == Len(loop.created) = 0 /\ evt.Findings > 0

\* the quota check allows: manifests, fallback, batch event, deferred release
UsageGranted(evt) ==
    /\ evt.ProjectID \in Projects
    /\ CheckAndConsumeUsage(usage, ToCreate(evt)).allowed
    /\ \E out \in OutcomeVectors(evt), fbOk \in BOOLEAN, revertOk \in BOOLEAN :
          LET reserved == ToCreate(evt)
              loop == ManifestLoop(evt, out, 1, LoopStart(sboms))
              fallback == FallbackNeeded(evt, loop)
              fbFails == fallback /\ ~fbOk
              done == IF fallback /\ fbOk THEN FallbackUpsert(evt, loop) ELSE loop
          IN  /\ IF fbFails
                 THEN UNCHANGED <<outbox, lastEnqueue>>
                 ELSE \E dbOk \in BOOLEAN : EnqueueOutboxEvent(BatchMessage(evt), dbOk)
              /\ sboms' = done.table
              /\ usage' = ReleaseUnusedUsage(CheckAndConsumeUsage(usage, reserved).used,
                                             reserved, done.successful, revertOk)
              /\ lastHandle' =
                    [ ret |-> IF fbFails THEN ErrTransient
                              ELSE IF lastEnqueue'.ret = RetNil THEN RetNil
                              ELSE ErrTransient,
                      allowed |-> "yes",
                      toCreate |-> reserved,
                      successful |-> done.successful,
                      parsed |-> done.parsed,
                      upserts |-> done.upserts,
                      released |-> <<<<reserved, done.successful>>>>,
                      enqueued |-> IF fbFails THEN <<>> ELSE <<"sbom.batch_created">>,
                      okManifests |-> Cardinality(OkManifests(evt, out)),
                      revertFailed |-> reserved - done.successful > 0 /\ ~revertOk,
                      org |-> "found",
                      fallback |-> IF ~fallback THEN "skipped"
                                   ELSE IF fbOk THEN "upserted" ELSE "failed" ]

handleCodeScanDone(evt) ==
    \/ OrgLookupFailed(evt)
    \/ OrgLookupError(evt)
    \/ UsageCheckError(evt)
    \/ UsageDenied(evt)
    \/ UsageGranted(evt)

DispatcherStep(d) ==
    \/ ClaimSelect(d)
    \/ ClaimCommit(d)
    \/ ClaimRollback(d)
    \/ \E brokerOk \in BOOLEAN : PublishEvent(d, brokerOk)
    \/ \E dbOk \in BOOLEAN : MarkSent(d, dbOk)
    \/ \E dbOk \in BOOLEAN : MarkFailed(d, dbOk)

\* the same steps while the database answers every statement
DispatcherStepDbUp(d) ==
    \/ ClaimSelect(d)
    \/ ClaimCommit(d)
    \/ \E brokerOk \in BOOLEAN : PublishEvent(d, brokerOk)
    \/ MarkSent(d, TRUE)
    \/ MarkFailed(d, TRUE)

(* ---------------------------------------------------------------------- *)
(* StartCodeScanConsumer: the fetch, process, commit loop                  *)
(* ---------------------------------------------------------------------- *)
dispatcherVars == <<now, pc, events, idx, pubErr, published, recorded, brokerFailures>>

handlerVars == <<outbox, lastEnqueue, sboms, usage, lastHandle>>

\* validateCodeScanEvent
ValidEvent(evt) ==
    /\ evt.ProjectID # 0
    /\ TrimSpace(evt.Project) # ""
    /\ TrimSpace(evt.EventType) # ""

\* nextDelay counts the attempts; the counter only sets the length of the
\* sleep, and is kept up to MaxRetryAttempt
NextAttempt(attempt) ==
    IF attempt < MaxRetryAttempt THEN attempt + 1 ELSE MaxRetryAttempt

\* variant: a permanent error is retried like a transient one
AfterPermanentRetry == "sleep"

\* where the loop goes on a permanent error: publishCodeScanDLQ
AfterPermanent == "dlq"

\* variant: a transient error commits the message
AfterTransientCommit == "commit"

\* where the loop goes on a transient error: sleepWithContext
AfterTransient == "sleep"

\* the branch the loop takes on what processCodeScanMessage returned
AfterProcess(ret) ==
    /\ outcome' = [outcome EXCEPT ![pos] = ret]
    /\ cpc' = IF ret = RetNil THEN "commit"
              ELSE IF ret = ErrPermanent THEN AfterPermanent
              ELSE AfterTransient
    /\ retry' = IF ret = ErrTransient THEN NextAttempt(retry) ELSE retry

\* the rows of the outbox as a producer sees them: event type and dedup key
OutboxRows(table) == [r \in DOMAIN table |-> <<table[r].payload, table[r].dedup_key>>]

\* variant: the deferred function closes the reader only
DeferredCloseReaderOnly(c) == [c EXCEPT !.reader = @ + 1]

\* the deferred function of the goroutine: reader.Close, then dlqWriter.Close
DeferredClose(c) == [c EXCEPT !.reader = @ + 1, !.dlqWriter = @ + 1]

\* FetchMessage returns the next message of the partition
FetchMessage ==
    /\ cpc = "fetch"
    /\ ~ctxDone
    /\ pos < Len(stream)
    /\ pos' = pos + 1
    /\ cpc' = "process"
    /\ retry' = 0
    /\ UNCHANGED <<stream, ctxDone, committed, outcome, dlqCalls, dlqWritten, snap, closes>>
    /\ UNCHANGED <<handlerVars, dispatcherVars, poolVars, auxVars>>

\* FetchMessage fails on the cancelled context: the goroutine returns
FetchCancelled ==
    /\ cpc = "fetch"
    /\ ctxDone
    /\ cpc' = "stopped"
    /\ closes' = DeferredClose(closes)
    /\ UNCHANGED <<stream, pos, ctxDone, retry, committed, outcome, dlqCalls, dlqWritten, snap>>
    /\ UNCHANGED <<handlerVars, dispatcherVars, poolVars, auxVars>>

\* processCodeScanMessage on bytes that do not decode or do not validate,
\* or on an event type it ignores
ProcessWithoutHandler ==
    /\ cpc = "process"
    /\ \/ ~stream[pos].Decodes /\ AfterProcess(ErrPermanent)
       \/ /\ stream[pos].Decodes /\ ~ValidEvent(stream[pos])
          /\ AfterProcess(ErrPermanent)
       \/ /\ stream[pos].Decodes /\ ValidEvent(stream[pos])
          /\ stream[pos].EventType # "CODE_SCAN_DONE"
          /\ AfterProcess(RetNil)
    /\ UNCHANGED <<stream, pos, ctxDone, committed, dlqCalls, dlqWritten, snap, closes>>
    /\ UNCHANGED <<handlerVars, dispatcherVars, poolVars, auxVars>>

\* processCodeScanMessage on a CODE_SCAN_DONE event: handleCodeScanDone
ProcessCodeScanDone ==
    /\ cpc = "process"
    /\ stream[pos].Decodes /\ ValidEvent(stream[pos])
    /\ stream[pos].EventType = "CODE_SCAN_DONE"
    /\ handleCodeScanDone(stream[pos])
    /\ AfterProcess(lastHandle'.ret)
    /\ snap' = IF lastHandle'.ret # RetNil THEN snap
               ELSE IF ~snap.taken
               THEN [taken |-> TRUE, allowed |-> lastHandle'.allowed,
                     sboms |-> sboms', outbox |-> OutboxRows(outbox'),
                     usage |-> usage', successful |-> lastHandle'.successful]
               ELSE snap
    /\ UNCHANGED <<stream, pos, ctxDone, committed, dlqCalls, dlqWritten, closes>>
    /\ UNCHANGED <<dispatcherVars, poolVars, auxVars>>

\* publishCodeScanDLQ: a failed write is only logged
PublishCodeScanDLQ(writeOk) ==
    /\ cpc = "dlq"
    /\ dlqCalls' = [dlqCalls EXCEPT ![pos] = @ + 1]
    /\ dlqWritten' = IF writeOk THEN [dlqWritten EXCEPT ![pos] = @ + 1] ELSE dlqWritten
    /\ cpc' = "commit"
    /\ UNCHANGED <<stream, pos, ctxDone, retry, committed, outcome, snap, closes>>
    /\ UNCHANGED <<handlerVars, dispatcherVars, poolVars, auxVars>>

\* commitMessage: retries CommitMessages until it succeeds; gives up only
\* when the context is cancelled, and the loop goes on either way
CommitMessage(commitOk) ==
    /\ cpc = "commit"
    /\ commitOk \/ ctxDone
    /\ committed' = IF commitOk THEN committed \cup {pos} ELSE committed
    /\ cpc' = "fetch"
    /\ UNCHANGED <<stream, pos, ctxDone, retry, outcome, dlqCalls, dlqWritten, snap, closes>>
    /\ UNCHANGED <<handlerVars, dispatcherVars, poolVars, auxVars>>

\* sleepWithContext: the timer fires and the same message is processed again
SleepElapsed ==
    /\ cpc = "sleep"
    /\ cpc' = "process"
    /\ UNCHANGED <<stream, pos, ctxDone, retry, committed, outcome, dlqCalls, dlqWritten, snap, closes>>
    /\ UNCHANGED <<handlerVars, dispatcherVars, poolVars, auxVars>>

\* sleepWithContext: the context is cancelled first and the goroutine returns
SleepCancelled ==
    /\ cpc = "sleep"
    /\ ctxDone
    /\ cpc' = "stopped"
    /\ closes' = DeferredClose(closes)
    /\ UNCHANGED <<stream, pos, ctxDone, retry, committed, outcome, dlqCalls, dlqWritten, snap>>
    /\ UNCHANGED <<handlerVars, dispatcherVars, poolVars, auxVars>>

\* main receives SIGINT or SIGTERM
Cancel ==
    /\ ~ctxDone
    /\ ctxDone' = TRUE
    /\ UNCHANGED <<stream, pos, cpc, retry, committed, outcome, dlqCalls, dlqWritten, snap, closes>>
    /\ UNCHANGED <<handlerVars, dispatcherVars, poolVars, auxVars>>

ConsumerStep ==
    \/ FetchMessage
    \/ FetchCancelled
    \/ ProcessWithoutHandler
    \/ ProcessCodeScanDone
    \/ \E writeOk \in BOOLEAN : PublishCodeScanDLQ(writeOk)
    \/ \E commitOk \in BOOLEAN : CommitMessage(commitOk)
    \/ SleepElapsed
    \/ SleepCancelled

(* ---------------------------------------------------------------------- *)
(* getKafkaWriter and kafkaWriterPool (internal/services/kafka_manager.go) *)
(* ---------------------------------------------------------------------- *)
\* kafkaWriterPool.Load
PoolLoad(pool, topic) == pool[topic]

\* &kafka.Writer{...}: a new writer, open, not yet handed to anybody
NewWriter(topic) == [topic |-> topic, state |-> "open", returned |-> FALSE]

\* variant: the writer is stored whatever the pool holds
LoadOrStoreOverwrite(pool, topic, w) ==
    [pool |-> [pool EXCEPT ![topic] = w], actual |-> w, loaded |-> FALSE]

\* sync.Map.LoadOrStore: one atomic step
LoadOrStore(pool, topic, w) ==
    IF pool[topic] # NoWriter
    THEN [pool |-> pool, actual |-> pool[topic], loaded |-> TRUE]
    ELSE [pool |-> [pool EXCEPT ![topic] = w], actual |-> w, loaded |-> FALSE]

\* the writer is handed to the caller
Handed(ws, w) == [ws EXCEPT ![w].returned = TRUE]

\* writer.Close
Closed(ws, w) == [ws EXCEPT ![w].state = "closed"]

\* variant: no topic is refused
InvalidTopicNever(topic) == FALSE

\* the topic getKafkaWriter refuses with ErrInvalidOutboxMessage
InvalidTopic(topic) == topic = ""

\* getKafkaWriter up to the construction of a writer: the empty topic is
\* refused, a writer the pool holds is returned, else one is constructed
GetLoad(c, topic) ==
    /\ getters[c].pc = "idle"
    /\ IF InvalidTopic(topic)
       THEN /\ getters' = [getters EXCEPT ![c] =
                   [pc |-> "done", topic |-> topic, local |-> NoWriter,
                    ret |-> ErrInvalidOutboxMessage, writer |-> NoWriter]]
            /\ UNCHANGED <<wpool, writers>>
       ELSE IF PoolLoad(wpool, topic) # NoWriter
       THEN /\ getters' = [getters EXCEPT ![c] =
                   [pc |-> "done", topic |-> topic, local |-> NoWriter,
                    ret |-> RetNil, writer |-> PoolLoad(wpool, topic)]]
            /\ writers' = Handed(writers, PoolLoad(wpool, topic))
            /\ UNCHANGED wpool
       ELSE /\ writers' = Append(writers, NewWriter(topic))
            /\ getters' = [getters EXCEPT ![c] =
                   [pc |-> "store", topic |-> topic, local |-> Len(writers) + 1,
                    ret |-> "none", writer |-> NoWriter]]
            /\ UNCHANGED wpool
    /\ UNCHANGED <<outbox, now, pc, events, idx, pubErr, published, recorded, lastEnqueue, brokerFailures, consumerVars, closes, auxVars>>

\* getKafkaWriter from LoadOrStore on: the loser closes the writer it
\* constructed and returns the one the pool holds
GetStore(c) ==
    /\ getters[c].pc = "store"
    /\ LET g == getters[c]
           res == LoadOrStore(wpool, g.topic, g.local)
       IN  /\ wpool' = res.pool
           /\ writers' = IF res.loaded
                         THEN Handed(Closed(writers, g.local), res.actual)
                         ELSE Handed(writers, g.local)
           /\ getters' = [getters EXCEPT ![c] =
                  [g EXCEPT !.pc = "done", !.ret = RetNil,
                            !.writer = IF res.loaded THEN res.actual ELSE g.local]]
    /\ UNCHANGED <<outbox, now, pc, events, idx, pubErr, published, recorded, lastEnqueue, brokerFailures, consumerVars, closes, auxVars>>

\* a goroutine calls getKafkaWriter or goes on inside it
GetKafkaWriterStep(c) ==
    \/ \E topic \in PoolTopics : GetLoad(c, topic)
    \/ GetStore(c)

(* ---------------------------------------------------------------------- *)
(* run under the context of main (internal/services/kafka_manager.go)      *)
(* ---------------------------------------------------------------------- *)
\* variant: the statements do not look at the context
CtxOutcomesIgnoreCtx == BOOLEAN

\* what BeginTx, ExecContext and Commit can answer under the context: with
\* the context cancelled database/sql returns ctx.Err() for each of them,
\* and on a closed handle it returns an error for each of them
CtxOutcomes == IF ctxDone \/ shut.db = "closed" THEN {FALSE} ELSE BOOLEAN

\* the select of run takes the ctx.Done case: run returns
DispatcherStop(d) ==
    /\ pc[d] = "idle"
    /\ ctxDone
    /\ pc' = [pc EXCEPT ![d] = "stopped"]
    /\ UNCHANGED <<outbox, now, events, idx, pubErr, published, recorded, lastEnqueue, brokerFailures, consumerVars, closes, poolVars, auxVars>>

\* a step of run and dispatchBatch: the claim transaction begins and commits
\* only while the context allows, a mark under a cancelled context fails
DispatcherStepCtx(d) ==
    \/ TRUE \in CtxOutcomes /\ ClaimSelect(d)
    \/ TRUE \in CtxOutcomes /\ ClaimCommit(d)
    \/ ClaimRollback(d)
    \/ \E brokerOk \in BOOLEAN : PublishEvent(d, brokerOk)
    \/ \E dbOk \in CtxOutcomes : MarkSent(d, dbOk)
    \/ \E dbOk \in CtxOutcomes : MarkFailed(d, dbOk)
    \/ DispatcherStop(d)

\* replicas draining the table while a producer enqueues; no replica crashes
Next ==
    \/ EnqueuePlain
    \/ \E d \in Dispatchers : DispatcherStep(d)
    \/ AdvanceTime

Spec == Init /\ [][Next]_vars

\* every kind of producer call against a table one replica drains
NextEnqueue ==
    \/ Enqueue
    \/ DispatcherStepDbUp(1)

EnqueueSpec == InitEnqueue /\ [][NextEnqueue]_vars

\* one replica draining a table that holds more rows than a batch
NextBatch ==
    \/ DispatcherStepDbUp(1)
    \/ AdvanceTime

BatchSpec == InitBatch /\ [][NextBatch]_vars

\* replicas draining a table nobody enqueues into; the scheduler runs every
\* replica, a claim transaction eventually commits, and time passes
NextLive ==
    \/ \E d \in Dispatchers : DispatcherStep(d)
    \/ AdvanceTime

LiveSpec ==
    /\ InitLive
    /\ [][NextLive]_vars
    /\ \A d \in Dispatchers : WF_vars(DispatcherStep(d))
    /\ \A d \in Dispatchers : SF_vars(ClaimCommit(d))
    /\ WF_vars(AdvanceTime)

\* replicas that may crash and are started again, against a healthy database
NextCrash ==
    \/ \E d \in Dispatchers : DispatcherStepDbUp(d)
    \/ \E d \in Dispatchers : Crash(d)
    \/ \E d \in Dispatchers : Restart(d)
    \/ AdvanceTime

CrashSpec ==
    /\ InitLive
    /\ [][NextCrash]_vars
    /\ \A d \in Dispatchers : WF_vars(DispatcherStepDbUp(d))
    /\ \A d \in Dispatchers : WF_vars(Restart(d))
    /\ WF_vars(AdvanceTime)

\* producers enqueue while goroutines ask the pool for writers
NextWriters ==
    \/ Enqueue
    \/ \E c \in Callers : GetKafkaWriterStep(c)

WriterSpec == InitEnqueue /\ [][NextWriters]_vars

\* two rows waiting when the replicas start
InitShutdown == InitProcess(<<PendingRow(0), PendingRow(0)>>, 0)

NextShutdown ==
    \/ \E d \in Dispatchers : DispatcherStepCtx(d)
    \/ Cancel

\* the replicas scheduled fairly while main may cancel the context; the
\* select of run is fair between ctx.Done and the ticker
ShutdownSpec ==
    /\ InitShutdown
    /\ [][NextShutdown]_vars
    /\ \A d \in Dispatchers : WF_vars(DispatcherStepCtx(d))

(* ---------------------------------------------------------------------- *)
(* main on its way out (cmd/main.go), the dispatcher still running         *)
(* ---------------------------------------------------------------------- *)
\* everything main does not touch while it shuts down
runVars == <<outbox, now, pc, events, idx, pubErr, published, recorded, lastEnqueue,
             brokerFailures, consumerVars, closes, backoff, codec, ups>>

\* the select of main takes ctx.Done: a signal was received
MainSelectSignal ==
    /\ shut.main = "select"
    /\ ctxDone
    /\ shut' = [shut EXCEPT !.main = "shutdown", !.path = "signal"]
    /\ UNCHANGED <<runVars, poolVars>>

\* the select of main takes errCh: app.Listen returned; the context of the
\* goroutines is not cancelled by this
MainSelectServerError ==
    /\ shut.main = "select"
    /\ shut' = [shut EXCEPT !.main = "shutdown", !.path = "server"]
    /\ UNCHANGED <<runVars, poolVars>>

\* app.Shutdown
MainAppShutdown ==
    /\ shut.main = "shutdown"
    /\ shut' = [shut EXCEPT !.main = "closeDB"]
    /\ UNCHANGED <<runVars, poolVars>>

\* db.CloseDB
MainCloseDB ==
    /\ shut.main = "closeDB"
    /\ shut' = [shut EXCEPT !.main = "closeWriters", !.db = "closed"]
    /\ UNCHANGED <<runVars, poolVars>>

\* every writer the pool holds, closed; the pool keeps its entries
CloseKafkaWriters(pool, ws) ==
    [w \in DOMAIN ws |->
        IF \E t \in PoolTopics : pool[t] = w THEN [ws[w] EXCEPT !.state = "closed"] ELSE ws[w]]

\* services.CloseKafkaWriters
MainCloseKafkaWriters ==
    /\ shut.main = "closeWriters"
    /\ writers' = CloseKafkaWriters(wpool, writers)
    /\ shut' = [shut EXCEPT !.main = "return"]
    /\ UNCHANGED <<runVars, wpool, getters>>

\* main returns: the process exits and its goroutines with it
MainReturn ==
    /\ shut.main = "return"
    /\ shut' = [shut EXCEPT !.main = "exited"]
    /\ UNCHANGED <<runVars, poolVars>>

\* what WriteMessages can answer: an error on a closed writer and under a
\* cancelled context
WriteOutcomes(state) == IF state = "closed" \/ ctxDone THEN {FALSE} ELSE BOOLEAN

\* publishEvent: getKafkaWriter on the pool, then WriteMessages on the
\* writer it returned
PublishPooled(d) ==
    /\ pc[d] = "publish"
    /\ LET topic == CurrentEvent(d).Topic
           had == PoolLoad(wpool, topic)
           ws == IF had # NoWriter THEN writers ELSE Append(writers, NewWriter(topic))
           stored == IF had # NoWriter
                     THEN [pool |-> wpool, actual |-> had, loaded |-> TRUE]
                     ELSE LoadOrStore(wpool, topic, Len(writers) + 1)
       IN  IF InvalidTopic(topic)
           THEN /\ PublishOutcome(d, FALSE)
                /\ UNCHANGED <<wpool, writers, shut>>
           ELSE /\ wpool' = stored.pool
                /\ writers' = Handed(ws, stored.actual)
                /\ shut' = [shut EXCEPT !.got = ws[stored.actual].state]
                /\ \E brokerOk \in WriteOutcomes(ws[stored.actual].state) :
                      PublishOutcome(d, brokerOk)
    /\ UNCHANGED <<outbox, now, events, idx, recorded, lastEnqueue, consumerVars, closes,
                   getters, backoff, codec, ups>>

\* a step of run and dispatchBatch while the process lives
RunStep(d) ==
    /\ shut.main # "exited"
    /\ \/ TRUE \in CtxOutcomes /\ ClaimSelect(d)
       \/ TRUE \in CtxOutcomes /\ ClaimCommit(d)
       \/ ClaimRollback(d)
       \/ PublishPooled(d)
       \/ \E dbOk \in CtxOutcomes : MarkSent(d, dbOk)
       \/ \E dbOk \in CtxOutcomes : MarkFailed(d, dbOk)
       \/ DispatcherStop(d)

\* the signal arrives while the process lives
Signal == shut.main # "exited" /\ Cancel

\* the dispatcher of the process and main; a signal may arrive at any time
NextExit ==
    \/ RunStep(1)
    \/ Signal
    \/ MainSelectSignal
    \/ MainSelectServerError
    \/ MainAppShutdown
    \/ MainCloseDB
    \/ MainCloseKafkaWriters
    \/ MainReturn

ExitSpec == InitShutdown /\ [][NextExit]_vars

\* the consumer alone on any partition; main may be told to shut down
InitConsumerLoop ==
    \E partition \in Streams :
        /\ InitDispatchers(<<>>, 0)
        /\ InitConsumer(partition, 0)
        /\ InitWriters
        /\ InitAux
    /\ InitAux

NextConsumer ==
    \/ ConsumerStep
    \/ Cancel

ConsumerSpec == InitConsumerLoop /\ [][NextConsumer]_vars

\* the consumer on a single message, whatever the organization has used of
\* its quota
InitHandler ==
    \E e \in InboundMessages, used \in 0..QuotaLimit :
        /\ InitDispatchers(<<>>, 0)
        /\ InitConsumer(<<e>>, used)
        /\ InitWriters
        /\ InitAux
    /\ InitAux

HandlerSpec == InitHandler /\ [][NextConsumer]_vars

\* the events the handler works on
ScanEvents == {ScanOne, ScanTwo, ScanFindings}

\* the broker delivers an event twice while a replica drains the outbox
InitReplay ==
    \E e \in ScanEvents :
        /\ InitDispatchers(<<>>, 0)
        /\ InitConsumer(<<e, e>>, 0)
        /\ InitWriters
        /\ InitAux
    /\ InitAux

NextReplay ==
    \/ FetchMessage
    \/ ProcessCodeScanDone
    \/ CommitMessage(TRUE)
    \/ SleepElapsed
    \/ DispatcherStepDbUp(1)

ReplaySpec == InitReplay /\ [][NextReplay]_vars

\* the consumer scheduled fairly; a commit that keeps being retried
\* eventually succeeds
ConsumerLiveSpec ==
    /\ InitConsumerLoop
    /\ [][NextConsumer]_vars
    /\ WF_vars(ConsumerStep)
    /\ SF_vars(CommitMessage(TRUE))

\* the consumer on a single message, scheduled fairly, while main may cancel
\* the context: a sleep that finds the context cancelled returns, since the
\* timer of at least half a second is not ready when ctx.Done is
ConsumerStopSpec ==
    /\ InitHandler
    /\ [][NextConsumer]_vars
    /\ WF_vars(ConsumerStep)
    /\ SF_vars(SleepCancelled)

(* ---------------------------------------------------------------------- *)
(* retryBackoff (internal/services/code_scan_consumer.go)                  *)
(* ---------------------------------------------------------------------- *)
\* base durations in nanoseconds; base * 32 stays an int of the checker
BackoffBases == {1, 2, 3, 50000000}

\* max as a multiple of base
BackoffMaxFactors == {1, 3, 32, 40}

\* the attempt field before the first call; the program itself starts at 0
BackoffAttempts == {-2, 0}

\* variant: the jitter window is the whole base
jitterWindowBase(r) ==
    IF r.base <= 0 THEN DefaultJitterWindow ELSE r.base

\* the window of jitter: base / 2, or 50 ms when that is not positive
jitterWindow(r) ==
    IF r.base \div 2 <= 0 THEN DefaultJitterWindow ELSE r.base \div 2

\* rand.Int63n(window): any value of 0..window-1; the ends and the middle
JitterValues(window) == {0, window \div 2, window - 1}

\* the deterministic part of nextDelay
cappedDelay(r) ==
    LET attempt == IF r.attempt < 0 THEN 0 ELSE r.attempt
        delay == r.base * Pow2(min(attempt, 5))
    IN  IF delay > r.max THEN r.max ELSE delay

\* nextDelay with jitter j
nextDelay(b, j) ==
    [ r |-> [b.r EXCEPT !.attempt = (IF @ < 0 THEN 0 ELSE @) + 1],
      calls |-> b.calls + 1,
      delay |-> cappedDelay(b.r),
      jitter |-> j,
      ret |-> cappedDelay(b.r) + j ]

\* the retry loop calls nextDelay once more
NextDelay ==
    /\ backoff.calls < MaxDelayCalls
    /\ \E j \in JitterValues(jitterWindow(backoff.r)) : backoff' = nextDelay(backoff, j)
    /\ UNCHANGED <<outbox, now, pc, events, idx, pubErr, published, recorded, lastEnqueue, brokerFailures, consumerVars, closes, poolVars, codec, ups, shut>>

\* a retryBackoff of any base and max, before its first call
InitBackoff ==
    \E base \in BackoffBases, f \in BackoffMaxFactors, a \in BackoffAttempts :
        /\ InitDispatchers(<<>>, 0)
        /\ InitConsumer(<<>>, 0)
        /\ InitWriters
        /\ backoff = NoDelay([newRetryBackoff(base, f * base) EXCEPT !.attempt = a])
        /\ codec = NoWire
        /\ ups = NoUpserts
        /\ shut = MainRunning

BackoffSpec == InitBackoff /\ [][NextDelay]_vars

(* ---------------------------------------------------------------------- *)
(* decodeCodeScanEvent on the two shapes of a message                      *)
(* ---------------------------------------------------------------------- *)
\* event_type of the payload
EventTypeTexts == {"", " ", "CODE_SCAN_DONE", " code.scan.done ", "CODE_SCAN_STARTED"}
\* type of the envelope
EnvelopeTypes == {"", " ", "code.scan.done", "code.scan.started"}
\* project of the payload
ProjectTexts == {"", " ", "web"}
\* project_name of the payload and of the envelope
ProjectNameTexts == {"", "web"}
\* data of the envelope: no such key, a JSON object, a JSON string
DataKinds == {"absent", "object", "string"}

\* the payload fields
Payloads ==
    [ event_type : EventTypeTexts,
      project_id : {0, 42},
      project : ProjectTexts,
      project_name : ProjectNameTexts,
      findings : {0, 1},
      manifests : {<<>>, <<GoMod>>} ]

\* the payload, its timestamp, and the fields only the envelope has
Wires ==
    [ payload : Payloads,
      t : {Time(1, 0), Time(3, 7)},
      type : EnvelopeTypes,
      project_name : ProjectNameTexts,
      data : DataKinds ]

\* the envelope message carrying the payload, occurred_at = t
EnvelopeMessage(w) ==
    [ shape |-> "envelope", type |-> w.type, occurred_at |-> w.t,
      project_name |-> w.project_name, data |-> w.data, payload |-> w.payload ]

\* the legacy message carrying the payload, timestamp = t
LegacyMessage(w) == [shape |-> "legacy", payload |-> w.payload, timestamp |-> w.t]

\* json.Unmarshal(raw, &env): the keys of the message the eventEnvelope has
envelopeOf(raw) ==
    IF raw.shape = "envelope"
    THEN [ Type |-> raw.type, OccurredAt |-> raw.occurred_at,
           ProjectName |-> raw.project_name, Data |-> raw.data ]
    ELSE [ Type |-> "", OccurredAt |-> ZeroTime,
           ProjectName |-> raw.payload.project_name, Data |-> "absent" ]

\* json.Unmarshal(raw, &legacy): the keys of the message the legacy struct has
legacyOf(raw) ==
    IF raw.shape = "legacy"
    THEN [ EventType |-> raw.payload.event_type, ProjectID |-> raw.payload.project_id,
           Project |-> raw.payload.project, ProjectName |-> raw.payload.project_name,
           Findings |-> raw.payload.findings, Manifests |-> raw.payload.manifests,
           Timestamp |-> raw.timestamp ]
    ELSE [ EventType |-> "", ProjectID |-> 0, Project |-> "",
           ProjectName |-> raw.project_name, Findings |-> 0, Manifests |-> <<>>,
           Timestamp |-> ZeroTime ]

\* variant: an empty event type stays empty
defaultEventTypeNone(eventType) == eventType

\* if eventType == "" { eventType = "CODE_SCAN_DONE" }
defaultEventType(eventType) == IF eventType = "" THEN "CODE_SCAN_DONE" ELSE eventType

\* the project name of the envelope shape: the first that is not empty
\* after trimming
envelopeProjectName(payload, env) ==
    IF TrimSpace(payload.project) # "" THEN TrimSpace(payload.project)
    ELSE IF TrimSpace(payload.project_name) # "" THEN TrimSpace(payload.project_name)
    ELSE TrimSpace(env.ProjectName)

\* the project name of the legacy shape
legacyProjectName(legacy) ==
    IF legacy.Project = "" THEN legacy.ProjectName ELSE legacy.Project

\* decodeCodeScanEvent
decodeCodeScanEvent(raw) ==
    LET env == envelopeOf(raw)
        legacy == legacyOf(raw)
    IN  IF env.Type # "" /\ env.Data # "absent"
        THEN IF env.Data # "object" THEN DecodeError
             ELSE [ Decodes |-> TRUE,
                    EventType |->
                        defaultEventType(normalizeEventType(raw.payload.event_type, env.Type)),
                    ProjectID |-> raw.payload.project_id,
                    Project |-> envelopeProjectName(raw.payload, env),
                    Timestamp |-> env.OccurredAt,
                    Manifests |-> raw.payload.manifests,
                    Findings |-> raw.payload.findings ]
        ELSE [ Decodes |-> TRUE,
               EventType |-> normalizeEventType(legacy.EventType, ""),
               ProjectID |-> legacy.ProjectID,
               Project |-> legacyProjectName(legacy),
               Timestamp |-> legacy.Timestamp,
               Manifests |-> legacy.Manifests,
               Findings |-> legacy.Findings ]

\* what processCodeScanMessage does with the decoded event
processOutcome(evt) ==
    IF ~evt.Decodes \/ ~ValidEvent(evt) THEN "permanent"
    ELSE IF evt.EventType # "CODE_SCAN_DONE" THEN "skip"
    ELSE "accept"

\* the envelope message carrying the fields is decoded
DecodeEnvelope ==
    /\ "envelope" \notin codec.decoded
    /\ codec' = [codec EXCEPT !.envelope = decodeCodeScanEvent(EnvelopeMessage(codec.wire)),
                              !.decoded = @ \cup {"envelope"}]
    /\ UNCHANGED <<outbox, now, pc, events, idx, pubErr, published, recorded, lastEnqueue, brokerFailures, consumerVars, closes, poolVars, backoff, ups, shut>>

\* the legacy message carrying the fields is decoded
DecodeLegacy ==
    /\ "legacy" \notin codec.decoded
    /\ codec' = [codec EXCEPT !.legacy = decodeCodeScanEvent(LegacyMessage(codec.wire)),
                              !.decoded = @ \cup {"legacy"}]
    /\ UNCHANGED <<outbox, now, pc, events, idx, pubErr, published, recorded, lastEnqueue, brokerFailures, consumerVars, closes, poolVars, backoff, ups, shut>>

\* the fields of one message, before either shape is decoded
InitDecode ==
    \E w \in Wires :
        /\ InitDispatchers(<<>>, 0)
        /\ InitConsumer(<<>>, 0)
        /\ InitWriters
        /\ backoff = NoDelay(newRetryBackoff(Second, Second))
        /\ codec = Codec(w)
        /\ ups = NoUpserts
        /\ shut = MainRunning

NextDecode == DecodeEnvelope \/ DecodeLegacy

DecodeSpec == InitDecode /\ [][NextDecode]_vars

(* ---------------------------------------------------------------------- *)
(* UpsertSBOM called concurrently (internal/services/sbom_crud.go)         *)
(* ---------------------------------------------------------------------- *)
\* the manifest names the concurrent calls carry
UpsertManifests == {"go.mod", "package.json"}

\* a row of sboms as UpsertSBOM writes it
SBOMRow(manifest) ==
    [project_name |-> "web", manifest_name |-> manifest, source |-> "auto-code-scan"]

\* the call begins: ParseSBOMSummary, then the SELECT of the existing row;
\* a SELECT that fails is taken like one that finds nothing
UpsertSelect(c, manifest, summaryOk, dbOk) ==
    /\ ups.calls[c].pc = "idle"
    /\ LET existing == ExistingSBOM(ups.table, "web", manifest)
       IN  ups' = [ups EXCEPT !.calls[c] =
                     IF ~summaryOk
                     THEN [pc |-> "done", manifest |-> manifest, found |-> 0, id |-> 0,
                           action |-> "none", err |-> "summary"]
                     ELSE [pc |-> "selected", manifest |-> manifest,
                           found |-> IF dbOk /\ existing # {} THEN MinId(existing) ELSE 0,
                           id |-> 0, action |-> "none", err |-> "none"]]
    /\ UNCHANGED <<outbox, now, pc, events, idx, pubErr, published, recorded, lastEnqueue, brokerFailures, consumerVars, closes, poolVars, backoff, codec, shut>>

\* the call ends: UPDATE of the row the SELECT found, or INSERT of a row
\* with a fresh id; a unique index, where the table has one, refuses the
\* second row of a pair
UpsertWrite(c, dbOk) ==
    /\ ups.calls[c].pc = "selected"
    /\ LET call == ups.calls[c]
           fresh == Len(ups.table) + 1
           conflict == ups.unique /\ ExistingSBOM(ups.table, "web", call.manifest) # {}
       IN  ups' =
             IF call.found # 0
             THEN [ups EXCEPT !.calls[c] = [call EXCEPT !.pc = "done", !.id = call.found,
                                                        !.action = "update",
                                                        !.err = IF dbOk THEN "nil" ELSE "db"]]
             ELSE IF ~dbOk \/ conflict
             THEN [ups EXCEPT !.calls[c] = [call EXCEPT !.pc = "done", !.id = fresh,
                                                        !.action = "create",
                                                        !.err = IF dbOk THEN "unique" ELSE "db"]]
             ELSE [ups EXCEPT !.table = Append(@, SBOMRow(call.manifest)),
                              !.calls[c] = [call EXCEPT !.pc = "done", !.id = fresh,
                                                        !.action = "create", !.err = "nil"]]
    /\ UNCHANGED <<outbox, now, pc, events, idx, pubErr, published, recorded, lastEnqueue, brokerFailures, consumerVars, closes, poolVars, backoff, codec, shut>>

\* the table empty or holding the row of one pair, with or without a unique
\* index on the pair
InitUpsert ==
    \E table \in {<<>>, <<SBOMRow("go.mod")>>}, unique \in BOOLEAN :
        /\ InitDispatchers(<<>>, 0)
        /\ InitConsumer(<<>>, 0)
        /\ InitWriters
        /\ backoff = NoDelay(newRetryBackoff(Second, Second))
        /\ codec = NoWire
        /\ shut = MainRunning
        /\ ups = Upserts(table, unique)

\* each caller calls UpsertSBOM once
NextUpsert ==
    \/ \E c \in Callers, manifest \in UpsertManifests, summaryOk \in BOOLEAN, dbOk \in BOOLEAN :
          UpsertSelect(c, manifest, summaryOk, dbOk)
    \/ \E c \in Callers, dbOk \in BOOLEAN : UpsertWrite(c, dbOk)

UpsertSpec == InitUpsert /\ [][NextUpsert]_vars

TypeOK ==
    /\ \A r \in RowIds : outbox[r].attempts \in 0..(maxOutboxAttempts + 1)
    /\ \A d \in Dispatchers : pc[d] \in {"idle", "claiming", "publish", "markSent", "markFailed", "crashed", "stopped"}

(* ---------------------------------------------------------------------- *)
(* Properties                                                              *)
(* ---------------------------------------------------------------------- *)
InBatchLoop(d) == pc[d] \in {"publish", "markSent", "markFailed"}

\* rows claimPendingEvents returned to replica d that d has not finalised yet
Held(d) ==
    IF InBatchLoop(d)
    THEN {events[d][i].ID : i \in idx[d]..Len(events[d])}
    ELSE {}

Terminal(st) == st \in {outboxStatusSent, outboxStatusFailed}

\* C1: the batches claimPendingEvents has returned to different replicas and
\* that are not finalised yet never share a row, under every interleaving of
\* the replicas' claim transactions.
C1_ClaimsDisjoint ==
    \A d1 \in Dispatchers : \A d2 \in Dispatchers :
        d1 # d2 => Held(d1) \cap Held(d2) = {}

\* two claim transactions are open at once, each holding rows of its own
C1_Witness ==
    \E d1 \in Dispatchers : \E d2 \in Dispatchers :
        /\ d1 # d2
        /\ pc[d1] = "claiming" /\ events[d1] # <<>>
        /\ pc[d2] = "claiming" /\ events[d2] # <<>>

\* C2: without replica crashes, the broker receives each outbox row at most
\* once: no row is successfully published a second time.
C2_PublishedAtMostOnce ==
    \A r \in RowSpace : published[r] <= 1

\* a row was published and marked sent, and a replica is publishing again
C2_Witness ==
    \E r \in RowIds : \E d \in Dispatchers :
        /\ published[r] = 1
        /\ outbox[r].status = outboxStatusSent
        /\ pc[d] = "publish"

DedupUnique ==
    \A r1 \in RowIds : \A r2 \in RowIds :
        (r1 # r2 /\ outbox[r1].dedup_key # NullText)
            => outbox[r1].dedup_key # outbox[r2].dedup_key

\* an EnqueueOutboxEvent call returns whose dedup key a row already holds
DedupEnqueueStep ==
    /\ lastEnqueue' # lastEnqueue
    /\ lastEnqueue'.msg.DedupKey # ""
    /\ \E r \in RowIds : outbox[r].dedup_key = lastEnqueue'.msg.DedupKey

ValidMessage(msg) == msg.Topic # "" /\ msg.Payload # NilPayload

\* C3: no two rows share a non-null dedup_key; an Enqueue whose dedup key a
\* row already holds inserts nothing and leaves every row unchanged, whatever
\* the status of that row, and returns nil when the message is well-formed
\* and the database executed the insert.
C3_DedupNoOp ==
    /\ []DedupUnique
    /\ [][DedupEnqueueStep =>
            /\ outbox' = outbox
            /\ ~lastEnqueue'.inserted
            /\ (ValidMessage(lastEnqueue'.msg) /\ lastEnqueue'.ret # ErrDatabase)
                  => lastEnqueue'.ret = RetNil]_vars

\* a message with another payload was deduplicated against a row already sent
C3_Witness ==
    /\ lastEnqueue.ret = RetNil
    /\ ~lastEnqueue.inserted
    /\ lastEnqueue.found = outboxStatusSent
    /\ \E r \in RowIds :
          /\ outbox[r].dedup_key = lastEnqueue.msg.DedupKey
          /\ outbox[r].payload # lastEnqueue.msg.Payload

\* C4: a row in sent or failed keeps its status and attempts, is not selected
\* by any claim and is not published again, in every step of every replica.
C4_TerminalRows ==
    [][\A r \in RowIds :
          Terminal(outbox[r].status) =>
              /\ outbox'[r].status = outbox[r].status
              /\ outbox'[r].attempts = outbox[r].attempts
              /\ published'[r] = published[r]
              /\ \A d \in Dispatchers :
                    (pc[d] = "idle" /\ pc'[d] = "claiming")
                        => r \notin EventIds(events'[d])]_vars

\* a row is failed and a replica has an open claim on other rows
C4_Witness ==
    /\ \E r \in RowIds : outbox[r].status = outboxStatusFailed
    /\ \E d \in Dispatchers : pc[d] = "claiming"

\* C5: no step (Enqueue, claim, markSent, markFailed by any replica) lowers
\* the attempts of a row.
C5_AttemptsMonotone ==
    [][\A r \in RowIds : outbox'[r].attempts >= outbox[r].attempts]_vars

\* markFailed has raised the attempts of a freshly enqueued row
C5_Witness ==
    \E r \in RowIds : outbox[r].attempts = 1 /\ outbox[r].status = outboxStatusRetry

\* C6: a row with 12 recorded publish failures is failed with attempts = 12
\* and next_retry_at NULL; a failed row has exactly 12 recorded failures, so
\* none fails earlier and none is retried after.
C6_FailedAfterMaxAttempts ==
    \A r \in RowIds :
        /\ recorded[r] <= 12
        /\ recorded[r] >= 12 =>
              /\ outbox[r].status = outboxStatusFailed
              /\ outbox[r].attempts = 12
              /\ outbox[r].next_retry_at = NULL
        /\ outbox[r].status = outboxStatusFailed => recorded[r] = 12

\* a row failed for the 12th time after waiting out its 11th backoff
C6_Witness ==
    \E r \in RowIds :
        /\ outbox[r].status = outboxStatusFailed
        /\ recorded[r] = 12
        /\ now >= maxDelaySeconds

\* replica d returns from markSent or markFailed in this step
MarkStep(d) ==
    /\ pc[d] \in {"markSent", "markFailed"}
    /\ pc'[d] # pc[d]

LifecycleStep(r) ==
    LET old == outbox[r].status
        new == outbox'[r].status
    IN  old # new =>
          \/ old \in {outboxStatusPending, outboxStatusRetry} /\ new = outboxStatusProcessing
          \/ /\ old = outboxStatusProcessing
             /\ \E d \in Dispatchers : MarkStep(d) /\ events[d][idx[d]].ID = r
             /\ \/ new = outboxStatusSent
                \/ new = outboxStatusRetry /\ outbox[r].attempts + 1 < 12
                \/ new = outboxStatusFailed /\ outbox[r].attempts + 1 >= 12

\* C7: every status change is pending -> processing, retrying -> processing,
\* processing -> sent, processing -> retrying (attempts + 1 < 12) or
\* processing -> failed (attempts + 1 >= 12); new rows are pending; markSent
\* and markFailed run only on a row in processing that the caller holds.
C7_Lifecycle ==
    [][/\ \A r \in RowIds : LifecycleStep(r)
       /\ \A r \in 1..Len(outbox') :
             r \notin RowIds => outbox'[r].status = outboxStatusPending
       /\ \A d \in Dispatchers :
             MarkStep(d) =>
                /\ outbox[events[d][idx[d]].ID].status = outboxStatusProcessing
                /\ events[d][idx[d]].ID \in Held(d)
                /\ \A e \in Dispatchers \ {d} : events[d][idx[d]].ID \notin Held(e)]_vars

\* a row went processing -> retrying and was claimed into processing again
C7_Witness ==
    \E r \in RowIds :
        /\ outbox[r].status = outboxStatusProcessing
        /\ outbox[r].attempts = 1
        /\ outbox[r].last_error = ErrBroker

DueOrNull(r) ==
    outbox[r].next_retry_at = NULL \/ outbox[r].next_retry_at <= now

\* C8: a claim selects, and moves to processing, only rows that are pending or
\* retrying with next_retry_at NULL or <= now; a row is published only while
\* in processing; a batch never holds more than 20 rows.
C8_ClaimEligibleOnly ==
    /\ [](\A d \in Dispatchers : Len(events[d]) <= 20)
    /\ [][\A r \in RowIds :
            /\ (\E d \in Dispatchers :
                    /\ pc[d] = "idle" /\ pc'[d] = "claiming"
                    /\ r \in EventIds(events'[d]))
                  => /\ outbox[r].status \in {outboxStatusPending, outboxStatusRetry}
                     /\ DueOrNull(r)
            /\ (outbox[r].status # outboxStatusProcessing
                  /\ outbox'[r].status = outboxStatusProcessing)
                  => /\ outbox[r].status \in {outboxStatusPending, outboxStatusRetry}
                     /\ DueOrNull(r)
            /\ published'[r] > published[r]
                  => outbox[r].status = outboxStatusProcessing /\ DueOrNull(r)]_vars

\* a full batch of 20 is held while one row waits for its retry time and
\* another, still pending, was left out by the LIMIT
C8_Witness ==
    \E d \in Dispatchers :
        /\ Len(events[d]) = 20
        /\ \E r \in RowIds :
              /\ outbox[r].status = outboxStatusRetry
              /\ outbox[r].next_retry_at > now
        /\ \E r \in RowIds :
              /\ outbox[r].status = outboxStatusPending
              /\ r \notin EventIds(events[d])

\* C9: under fair scheduling of the replicas and of the clock, every row of
\* the table eventually is sent or failed.
C9_EventuallyTerminal ==
    \A r \in 1..LiveRows : <>(Terminal(outbox[r].status))

\* row r is in processing and no running replica holds it
Stranded(r) ==
    /\ outbox[r].status = outboxStatusProcessing
    /\ \A d \in Dispatchers : r \notin Held(d)

\* C10: a row stranded in processing by a crashed replica is eventually reset
\* to pending with last_error = 'dispatcher-crash-recovery'.
C10_StrandedRequeued ==
    \A r \in 1..LiveRows :
        Stranded(r) ~>
            (/\ outbox[r].status = outboxStatusPending
             /\ outbox[r].last_error = "dispatcher-crash-recovery")

\* both deliveries of the event were handled and each handling returned nil
BothHandled ==
    /\ Len(stream) = 2
    /\ stream[1] = stream[2]
    /\ outcome[1] = RetNil
    /\ outcome[2] = RetNil

\* both handlings were granted quota and ran through queueSBOMBatchEvent
BothCompleted ==
    /\ BothHandled
    /\ snap.allowed = "yes"
    /\ lastHandle.allowed = "yes"

\* rows of the batch event of evt
BatchRowsOf(evt) ==
    {r \in RowIds : /\ outbox[r].payload = "sbom.batch_created"
                    /\ outbox[r].dedup_key = BatchDedupKey(evt)}

\* C11: when the same CODE_SCAN_DONE event (same project_id and timestamp) is
\* delivered twice and both deliveries are handled through to
\* queueSBOMBatchEvent, the outbox holds exactly one sbom.batch_created row,
\* the second queueSBOMBatchEvent carried the same dedup_key and inserted
\* nothing, and the broker receives that row once: never twice, and once
\* when the row is sent.
C11_ReplayOneBatchEvent ==
    BothCompleted =>
        /\ Cardinality({r \in RowIds : outbox[r].payload = "sbom.batch_created"}) = 1
        /\ Cardinality(BatchRowsOf(stream[1])) = 1
        /\ lastEnqueue.msg.DedupKey = BatchDedupKey(stream[2])
        /\ lastEnqueue.ret = RetNil
        /\ ~lastEnqueue.inserted
        /\ \A r \in BatchRowsOf(stream[1]) :
              /\ published[r] <= 1
              /\ outbox[r].status = outboxStatusSent => published[r] = 1

\* the second delivery was deduplicated against the row of the first, which
\* the replica had published and marked sent by then
C11_Witness ==
    /\ BothCompleted
    /\ lastEnqueue.found = outboxStatusSent
    /\ \E r \in BatchRowsOf(stream[1]) : published[r] = 1

\* C12: handling the same inbound event twice leaves the state that handling
\* it once left: the same sboms rows, the same outbox rows and the same net
\* quota usage.
C12_ReplayIdempotent ==
    (BothHandled /\ snap.taken /\ lastHandle.successful = snap.successful) =>
        /\ sboms = snap.sboms
        /\ OutboxRows(outbox) = snap.outbox
        /\ usage = snap.usage

\* C13: an offset is committed only after processCodeScanMessage returned
\* nil for the message, or returned a permanent error and a DLQ record of the
\* message was written.
C13_CommitOnlyProcessedOrRouted ==
    \A o \in committed :
        \/ outcome[o] = RetNil
        \/ outcome[o] = ErrPermanent /\ dlqWritten[o] >= 1

\* the consumer is past the call of publishCodeScanDLQ for its message
PastDLQ(o) ==
    \/ pos > o
    \/ pos = o /\ cpc \in {"commit", "fetch", "stopped"}

\* C14: on a permanent error publishCodeScanDLQ is called exactly once for
\* the message, the message is never processed again, its offset is committed
\* after that call, and the consumer fetches the next message only with the
\* offset committed.
C14_PermanentRoutedOnce ==
    /\ [](\A o \in Offsets :
            /\ dlqCalls[o] <= 1
            /\ dlqCalls[o] = 1 => outcome[o] = ErrPermanent
            /\ (outcome[o] = ErrPermanent /\ PastDLQ(o)) => dlqCalls[o] = 1)
    /\ [][(pos >= 1 /\ outcome[pos] = ErrPermanent) =>
            /\ outcome'[pos] = ErrPermanent
            /\ pos' = pos => cpc' \notin {"process", "sleep"}
            /\ (cpc = "dlq" /\ cpc' # "dlq") => (cpc' = "commit" /\ dlqCalls'[pos] = 1)
            /\ committed' # committed => (committed' = committed \cup {pos} /\ dlqCalls[pos] = 1)
            /\ pos' # pos => (pos' = pos + 1 /\ pos \in committed)]_vars

\* a message went to the DLQ router once, was committed, and the consumer
\* is processing the next one
C14_Witness ==
    /\ pos = 2
    /\ cpc = "process"
    /\ outcome[1] = ErrPermanent
    /\ dlqCalls[1] = 1
    /\ 1 \in committed

\* C15: on a transient error the consumer commits nothing, calls no DLQ
\* router and fetches no other message; it sleeps and processes the same
\* message again (or returns when the context is cancelled), and the offset
\* is committed only once an attempt returned nil or a permanent error.
C15_TransientRetriesSame ==
    /\ []((pos >= 1 /\ outcome[pos] = ErrTransient) =>
            /\ cpc \in {"sleep", "process", "stopped"}
            /\ pos \notin committed
            /\ dlqCalls[pos] = 0
            /\ dlqWritten[pos] = 0)
    /\ [][/\ (pos >= 1 /\ outcome[pos] = ErrTransient) => pos' = pos
          /\ (cpc = "sleep" /\ cpc' # "sleep") => cpc' \in {"process", "stopped"}
          /\ (cpc = "process" /\ outcome'[pos] = ErrTransient /\ cpc' # cpc) => cpc' = "sleep"
          /\ committed' # committed =>
                /\ committed' = committed \cup {pos}
                /\ outcome[pos] \in {RetNil, ErrPermanent}]_vars

\* a message failed with a transient error, was processed again after the
\* sleep, succeeded and only then was committed
C15_Witness ==
    /\ pos = 1
    /\ retry >= 1
    /\ outcome[1] = RetNil
    /\ 1 \in committed

\* C16: under fair scheduling, and unless main is told to shut down, the
\* consumer eventually commits every message it has fetched, also one whose
\* processing fails on every attempt: the retries are bounded and end in the
\* DLQ.
C16_EventuallyAdvances ==
    \A o \in Offsets : (pos = o) ~> (o \in committed \/ ctxDone)

\* processCodeScanMessage returns in this step
ProcessReturns == cpc = "process" /\ cpc' # "process"

\* handleCodeScanDone returns in this step after the quota check denied
DenialReturns == ProcessReturns /\ lastHandle'.allowed = "no"

\* handleCodeScanDone returns in this step after the quota check allowed
GrantedReturns == ProcessReturns /\ lastHandle'.allowed = "yes"

\* the handling wrote no SBOM: no parse, no upsert, no batch event
NoSBOMWork ==
    /\ lastHandle'.parsed = 0
    /\ lastHandle'.upserts = 0
    /\ sboms' = sboms
    /\ \A i \in 1..Len(lastHandle'.enqueued) : lastHandle'.enqueued[i] # "sbom.batch_created"
    /\ \A r \in 1..Len(outbox') : r > Len(outbox) => outbox'[r].payload # "sbom.batch_created"

\* C17 as stated: when the quota check denies, handleCodeScanDone writes no
\* SBOM row (no parse, no upsert, no batch event) and calls ReleaseUnusedUsage
\* with reserved = toCreate and succeeded = 0.
C17_DenialReleasesReserved ==
    [][DenialReturns =>
          /\ NoSBOMWork
          /\ lastHandle'.released = <<<<ToCreate(stream[pos]), 0>>>>]_vars

\* C17 amended: when the quota check denies, handleCodeScanDone writes no
\* SBOM row (no parse, no upsert, no batch event) and does not call
\* ReleaseUnusedUsage: it returns before the release is deferred.
C17_DenialShortCircuits ==
    [][DenialReturns =>
          /\ NoSBOMWork
          /\ lastHandle'.toCreate = ToCreate(stream[pos])
          /\ lastHandle'.released = <<>>]_vars

\* a handling was denied for an event that asked for two units
C17_Witness ==
    /\ lastHandle.allowed = "no"
    /\ lastHandle.toCreate = 2
    /\ lastHandle.released = <<>>
    /\ sboms = <<>>

\* C18: when the quota check denies, handleCodeScanDone hands exactly one
\* sbom.limit_reached warning to EnqueueOutboxEvent (the outbox gains that
\* one row when the insert succeeds, none otherwise) and returns nil; the
\* consumer goes to commit the offset, without backoff and without DLQ.
C18_DenialConsumed ==
    [][DenialReturns =>
          /\ lastHandle'.enqueued = <<"sbom.limit_reached">>
          /\ lastEnqueue'.msg = Warning("sbom.limit_reached")
          /\ IF lastEnqueue'.ret = RetNil
             THEN /\ Len(outbox') = Len(outbox) + 1
                  /\ outbox'[Len(outbox')].payload = "sbom.limit_reached"
             ELSE outbox' = outbox
          /\ lastHandle'.ret = RetNil
          /\ outcome'[pos] = RetNil
          /\ cpc' = "commit"
          /\ retry' = retry
          /\ dlqCalls'[pos] = 0]_vars

\* the denied message was committed, its warning is in the outbox, and the
\* DLQ router was not called
C18_Witness ==
    /\ lastHandle.allowed = "no"
    /\ 1 \in committed
    /\ retry = 0
    /\ dlqCalls[1] = 0
    /\ \E r \in RowIds : outbox[r].payload = "sbom.limit_reached"

\* C19: once the quota check allowed, ReleaseUnusedUsage runs exactly once
\* before handleCodeScanDone returns, on the normal return, on a failed
\* fallback upsert and on a failed batch enqueue alike, with reserved =
\* toCreate and successful = the number of upserts that succeeded; the usage
\* then has grown by successful, unless revert_usage itself failed.
C19_ReleaseOnEveryExit ==
    [][GrantedReturns =>
          /\ lastHandle'.ret \in {RetNil, ErrTransient}
          /\ lastHandle'.released = <<<<ToCreate(stream[pos]), lastHandle'.upserts>>>>
          /\ lastHandle'.successful = lastHandle'.upserts
          /\ lastHandle'.successful <= ToCreate(stream[pos])
          /\ ~lastHandle'.revertFailed => usage' = usage + lastHandle'.successful
          /\ lastHandle'.revertFailed => usage' = usage + ToCreate(stream[pos])]_vars

\* the fallback upsert failed: the handler returned the error without a
\* batch event, and the whole reservation was released
C19_Witness ==
    /\ lastHandle.allowed = "yes"
    /\ lastHandle.ret = ErrTransient
    /\ lastHandle.enqueued = <<>>
    /\ lastHandle.released = <<<<1, 0>>>>
    /\ ~lastHandle.revertFailed
    /\ usage = 0

\* C20: for an event with k manifests with content of which j >= 1 parse and
\* upsert successfully, every one of the k is attempted, exactly the j are
\* upserted and have their row, ReleaseUnusedUsage is called with reserved =
\* k and succeeded = j, and exactly one sbom.batch_created event is handed
\* to EnqueueOutboxEvent.
C20_ManifestFailureIsolated ==
    [][(GrantedReturns /\ lastHandle'.okManifests >= 1) =>
          /\ lastHandle'.parsed = ToCreate(stream[pos])
          /\ lastHandle'.upserts = lastHandle'.okManifests
          /\ lastHandle'.successful = lastHandle'.okManifests
          /\ lastHandle'.released = <<<<ToCreate(stream[pos]), lastHandle'.okManifests>>>>
          /\ lastHandle'.enqueued = <<"sbom.batch_created">>
          /\ lastEnqueue'.msg = BatchMessage(stream[pos])]_vars

\* of two manifests with content the first failed and the second was
\* upserted: one row, one slot released, the batch event enqueued
C20_Witness ==
    /\ lastHandle.toCreate = 2
    /\ lastHandle.okManifests = 1
    /\ lastHandle.released = <<<<2, 1>>>>
    /\ lastHandle.ret = RetNil
    /\ Len(sboms) = 1
    /\ sboms[1].manifest_name = "package.json"

\* C21: when the projects table has no row for the project id,
\* handleCodeScanDone hands one sbom.org_lookup_failed warning to
\* EnqueueOutboxEvent, reserves no quota, writes no SBOM and returns a
\* permanent error, so that the consumer goes to the DLQ router; when the
\* query fails otherwise it returns a transient error and the consumer sleeps
\* to retry, without DLQ call; a project without a row never gets past the
\* lookup.
C21_OrgLookupClassified ==
    [][(ProcessReturns /\ lastHandle'.org \in {"no_rows", "error", "found"}) =>
          /\ lastHandle'.org = "no_rows" =>
                /\ stream[pos].ProjectID \notin Projects
                /\ lastHandle'.enqueued = <<"sbom.org_lookup_failed">>
                /\ lastEnqueue'.msg = Warning("sbom.org_lookup_failed")
                /\ lastHandle'.allowed = "none"
                /\ lastHandle'.toCreate = 0
                /\ usage' = usage
                /\ NoSBOMWork
                /\ lastHandle'.ret = ErrPermanent
                /\ outcome'[pos] = ErrPermanent
                /\ cpc' = "dlq"
                /\ retry' = retry
          /\ lastHandle'.org = "error" =>
                /\ lastHandle'.ret = ErrTransient
                /\ outcome'[pos] = ErrTransient
                /\ cpc' = "sleep"
                /\ dlqCalls' = dlqCalls
                /\ committed' = committed
                /\ lastHandle'.enqueued = <<>>
                /\ outbox' = outbox
                /\ usage' = usage
                /\ NoSBOMWork
          /\ lastHandle'.org = "found" => stream[pos].ProjectID \in Projects]_vars

\* the message of a project without a row went to the DLQ and was committed,
\* its warning is in the outbox, and nothing was reserved or written
C21_Witness ==
    /\ lastHandle.org = "no_rows"
    /\ outcome[1] = ErrPermanent
    /\ dlqCalls[1] = 1
    /\ 1 \in committed
    /\ sboms = <<>>
    /\ \E r \in RowIds : outbox[r].payload = "sbom.org_lookup_failed"

\* the messages of the model that are no JSON, or lack project_id, project
\* or event_type
PoisonMessages == {NotJSON, NoProjectID, NoProject, NoEventType, StartedNoProjectID}

\* processCodeScanMessage returns a permanent error for a poison message
\* without calling handleCodeScanDone: no SBOM, quota or outbox change, and
\* the consumer goes to the DLQ router
PoisonNeverHandled ==
    /\ [][(ProcessReturns /\ stream[pos] \in PoisonMessages) =>
            /\ outcome'[pos] = ErrPermanent
            /\ cpc' = "dlq"
            /\ lastHandle' = lastHandle
            /\ UNCHANGED <<sboms, usage, outbox, lastEnqueue>>]_vars
    /\ [](stream[1] \in PoisonMessages =>
            /\ lastHandle = NoHandle
            /\ sboms = <<>>
            /\ outbox = <<>>
            /\ dlqCalls[1] <= 1)

\* C22: a message that is no JSON, or lacks project_id, project or
\* event_type, ends as one DLQ record plus a committed offset: once its
\* offset is committed, the DLQ topic holds exactly one record of it.
C22_PoisonEndsInDLQ ==
    \A o \in committed :
        stream[o] \in PoisonMessages => dlqWritten[o] = 1

\* processCodeScanMessage returns nil in this step without having called
\* handleCodeScanDone, and nothing but the position of the consumer changes
SkippedInStep ==
    /\ outcome'[pos] = RetNil
    /\ cpc' = "commit"
    /\ lastHandle' = lastHandle
    /\ dlqCalls' = dlqCalls
    /\ dlqWritten' = dlqWritten
    /\ UNCHANGED <<sboms, usage, outbox, lastEnqueue>>

\* C23 as stated: every message whose event type, as decodeCodeScanEvent
\* normalised it, is not CODE_SCAN_DONE is skipped: processCodeScanMessage
\* returns nil without calling handleCodeScanDone, no DLQ record, SBOM row,
\* quota change or outbox row results, and the consumer commits the offset.
C23_OtherTypeSkipped ==
    [][(ProcessReturns /\ stream[pos].Decodes /\ stream[pos].EventType # "CODE_SCAN_DONE") =>
          SkippedInStep]_vars

\* C23 amended: a message that decodes and passes validateCodeScanEvent and
\* whose normalised event type is not CODE_SCAN_DONE is skipped in that way,
\* and only such a message is: an event type that normalises to
\* CODE_SCAN_DONE reaches handleCodeScanDone, a message that fails validation
\* is a permanent error whatever its event type; a skipped offset never has
\* a DLQ call.
C23_ValidOtherTypeSkipped ==
    /\ [][ProcessReturns =>
            /\ (stream[pos].Decodes /\ ValidEvent(stream[pos])
                    /\ stream[pos].EventType # "CODE_SCAN_DONE") => SkippedInStep
            /\ stream[pos] = ScanStarted => SkippedInStep
            /\ stream[pos] = ScanDotted => lastHandle'.org # "none"
            /\ stream[pos] \in {NoEventType, StartedNoProjectID} => outcome'[pos] = ErrPermanent]_vars
    /\ [](stream[1] = ScanStarted => (dlqCalls[1] = 0 /\ lastHandle = NoHandle))

\* the ignored event was committed; nothing else happened
C23_Witness ==
    /\ stream[1] = ScanStarted
    /\ outcome[1] = RetNil
    /\ 1 \in committed
    /\ dlqCalls[1] = 0
    /\ lastHandle = NoHandle
    /\ sboms = <<>>
    /\ outbox = <<>>

\* the writers constructed for a topic
WritersOf(t) == {w \in DOMAIN writers : writers[w].topic = t}

\* the goroutine that constructed w has not reached LoadOrStore yet
InConstruction(w) == \E c \in Callers : getters[c].pc = "store" /\ getters[c].local = w

\* C24: under every interleaving of getKafkaWriter calls for a non-empty
\* topic, every call that has returned got the writer the pool holds for the
\* topic, the pool holds a writer as soon as one call has returned, that
\* writer is open, and every other writer constructed for the topic is
\* closed as soon as its LoadOrStore has lost and was never handed to a
\* caller.
C24_PoolRaceSafe ==
    \A t \in PoolTopics \ {""} :
        /\ \A c \in Callers :
              (getters[c].pc = "done" /\ getters[c].topic = t) =>
                  /\ getters[c].ret = RetNil
                  /\ getters[c].writer # NoWriter
                  /\ getters[c].writer = wpool[t]
        /\ wpool[t] # NoWriter =>
              /\ wpool[t] \in WritersOf(t)
              /\ writers[wpool[t]].state = "open"
        /\ \A w \in WritersOf(t) :
              \/ w = wpool[t]
              \/ InConstruction(w) /\ ~writers[w].returned
              \/ writers[w].state = "closed" /\ ~writers[w].returned

\* two goroutines constructed a writer for the same topic; one lost, its
\* writer is closed, and both returned the writer of the pool
C24_Witness ==
    \E c1 \in Callers : \E c2 \in Callers :
        /\ c1 # c2
        /\ getters[c1].pc = "done" /\ getters[c2].pc = "done"
        /\ getters[c1].topic = "sbom-events" /\ getters[c2].topic = "sbom-events"
        /\ getters[c1].local # NoWriter /\ getters[c2].local # NoWriter
        /\ getters[c1].writer = getters[c2].writer
        /\ writers[getters[c2].local].state = "closed"
        /\ wpool["sbom-events"] = getters[c1].local

\* the message EnqueueOutboxEvent must refuse
InvalidMessage(msg) == msg.Topic = "" \/ msg.Payload = NilPayload

\* C25: EnqueueOutboxEvent with an empty topic or a nil payload returns
\* ErrInvalidOutboxMessage and leaves the table as it was, no row inserted
\* and no row touched; getKafkaWriter("") returns that error and no writer,
\* constructs no writer and stores nothing in the pool.
C25_InvalidArgumentRefused ==
    /\ [](InvalidMessage(lastEnqueue.msg) /\ lastEnqueue.ret # "none" =>
            /\ lastEnqueue.ret = ErrInvalidOutboxMessage
            /\ ~lastEnqueue.inserted)
    /\ [][(lastEnqueue' # lastEnqueue /\ InvalidMessage(lastEnqueue'.msg)) =>
            outbox' = outbox]_vars
    /\ [](\A c \in Callers :
            (getters[c].pc # "idle" /\ getters[c].topic = "") =>
                /\ getters[c].pc = "done"
                /\ getters[c].ret = ErrInvalidOutboxMessage
                /\ getters[c].writer = NoWriter
                /\ getters[c].local = NoWriter)
    /\ [](wpool[""] = NoWriter /\ WritersOf("") = {})
    /\ [][\A c \in Callers :
            (getters[c].pc = "idle" /\ getters'[c].pc = "done" /\ getters'[c].topic = "") =>
                UNCHANGED <<wpool, writers>>]_vars

\* a call with an invalid message has just returned the error against a
\* table that holds a row, and getKafkaWriter("") has returned the error
\* while the pool holds a writer for another topic
C25_Witness ==
    /\ InvalidMessage(lastEnqueue.msg)
    /\ lastEnqueue.ret = ErrInvalidOutboxMessage
    /\ Len(outbox) >= 1
    /\ wpool["sbom-events"] # NoWriter
    /\ \E c \in Callers :
          /\ getters[c].pc = "done"
          /\ getters[c].topic = ""
          /\ getters[c].ret = ErrInvalidOutboxMessage

\* the positions of the consumer goroutine inside its loop
LoopStates == {"fetch", "process", "dlq", "commit", "sleep"}

C27_DispatcherShutdown ==
    /\ ctxDone ~> (\A d \in Dispatchers : pc[d] = "stopped")
    /\ [][ctxDone =>
            /\ \A d \in Dispatchers : pc'[d] = "claiming" => pc[d] = "claiming"
            /\ \A d \in Dispatchers : pc'[d] = "publish" => pc[d] \in {"publish", "markSent", "markFailed"}
            /\ \A r \in RowIds :
                  /\ outbox'[r].status = outboxStatusProcessing =>
                        outbox[r].status = outboxStatusProcessing
                  /\ outbox[r].status = outboxStatusProcessing => outbox'[r] = outbox[r]]_vars
    /\ [][\A d \in Dispatchers :
            pc[d] = "stopped" => (pc'[d] = "stopped" /\ events'[d] = events[d])]_vars
    /\ [](\A d \in Dispatchers : pc[d] = "stopped" => ctxDone)

\* every dispatcher has returned, and a row one of them had claimed is left
\* in processing
C27_Witness ==
    /\ ctxDone
    /\ \A d \in Dispatchers : pc[d] = "stopped"
    /\ \E r \in RowIds : outbox[r].status = outboxStatusProcessing

\* min(2^(n+1), 300) for n = 0..10, written out
BackoffSeconds == <<2, 4, 8, 16, 32, 64, 128, 256, 300, 300, 300>>

\* replica d returns from markFailed in this step and its UPDATE went through
MarkFailedDone(d) ==
    /\ pc[d] = "markFailed"
    /\ pc'[d] # "markFailed"
    /\ recorded'[events[d][idx[d]].ID] = recorded[events[d][idx[d]].ID] + 1

\* C28: markFailed on a claimed row with attempts = n < 11 sets status =
\* retrying, attempts = n + 1, last_error = the error of the publish and
\* next_retry_at = now + min(2^(n+1), 300) seconds, and changes nothing else
\* of the row; the first failure gives attempts = 1 and now + 2 s; the delay
\* never decreases with n and never exceeds 300 s.
C28_MarkFailedBackoff ==
    /\ [][\A d \in Dispatchers :
            MarkFailedDone(d) =>
               LET r == events[d][idx[d]].ID
                   n == outbox[r].attempts
               IN  /\ outbox[r].status = outboxStatusProcessing
                   /\ n < 11 =>
                         /\ outbox'[r] =
                               [outbox[r] EXCEPT !.status = outboxStatusRetry,
                                                 !.attempts = n + 1,
                                                 !.last_error = pubErr[d],
                                                 !.next_retry_at = now + BackoffSeconds[n + 1]]
                         /\ pubErr[d] \in {ErrBroker, ErrInvalidOutboxMessage}
                         /\ n = 0 => (outbox'[r].attempts = 1 /\ outbox'[r].next_retry_at = now + 2)]_vars
    /\ [](\A n \in 0..10 :
            /\ markFailedStatus(n) = outboxStatusRetry
            /\ markFailedDelay(n) = BackoffSeconds[n + 1]
            /\ markFailedDelay(n) <= maxDelaySeconds
            /\ n < 10 => markFailedDelay(n) <= markFailedDelay(n + 1))

\* the eleventh failure of a row has just been recorded: the row waits the
\* full five minutes
C28_Witness ==
    \E r \in RowIds :
        /\ outbox[r].status = outboxStatusRetry
        /\ outbox[r].attempts = 11
        /\ recorded[r] = 11
        /\ outbox[r].next_retry_at = now + maxDelaySeconds

\* one step of replica d through its batch: the batch is walked from its
\* first event to its last, each event is published once and then marked
\* once, by markSent exactly when the broker took the message
BatchWalkStep(d) ==
    /\ (pc[d] = "claiming" /\ pc'[d] = "publish") =>
          (idx'[d] = 1 /\ events'[d] = events[d] /\ events[d] # <<>>)
    /\ (pc[d] = "publish" /\ pc'[d] # "publish") =>
          /\ pc'[d] \in {"markSent", "markFailed"}
          /\ idx'[d] = idx[d] /\ events'[d] = events[d]
          /\ outbox' = outbox
          /\ pc'[d] = "markSent" =>
                /\ published' = [published EXCEPT ![events[d][idx[d]].ID] = @ + 1]
                /\ pubErr'[d] = RetNil
          /\ pc'[d] = "markFailed" =>
                /\ published' = published
                /\ pubErr'[d] # RetNil
    /\ (pc[d] \in {"markSent", "markFailed"} /\ (pc'[d] # pc[d] \/ idx'[d] # idx[d])) =>
          /\ \A r \in RowIds : r # events[d][idx[d]].ID => outbox'[r] = outbox[r]
          /\ published' = published
          /\ IF idx[d] < Len(events[d])
             THEN pc'[d] = "publish" /\ idx'[d] = idx[d] + 1 /\ events'[d] = events[d]
             ELSE pc'[d] = "idle"
    /\ pc'[d] = "publish" => pc[d] \in {"claiming", "publish", "markSent", "markFailed"}
    /\ pc'[d] \in {"markSent", "markFailed"} => pc[d] \in {"publish", pc'[d]}
    /\ pc[d] = pc'[d] => idx'[d] = idx[d]

\* C29: dispatchBatch publishes every event of the claimed batch exactly
\* once, in the order of the batch, and follows each publish by exactly one
\* call of markSent (the publish succeeded) or markFailed (it failed) for
\* that event; whether the publish failed or the UPDATE of the mark failed,
\* the loop goes on with the next event; the broker is written to only by a
\* replica publishing its current event.
C29_OnePublishOneMark ==
    /\ [][\A d \in Dispatchers : BatchWalkStep(d)]_vars
    /\ [][published' # published =>
            \E d \in Dispatchers : pc[d] = "publish" /\ pc'[d] = "markSent"]_vars
    /\ [](\A d \in Dispatchers :
            /\ \A i \in DOMAIN events[d] : \A j \in DOMAIN events[d] :
                  i # j => events[d][i].ID # events[d][j].ID
            /\ InBatchLoop(d) => idx[d] \in DOMAIN events[d])

\* the publish of the first event failed and so did its markFailed; the
\* replica is publishing the second event of the batch
C29_Witness ==
    \E d \in Dispatchers :
        /\ pc[d] = "publish"
        /\ idx[d] = 2
        /\ published[events[d][1].ID] = 0
        /\ recorded[events[d][1].ID] = 0
        /\ outbox[events[d][1].ID].status = outboxStatusProcessing
        /\ brokerFailures >= 1

\* publishEvent has been called for row r at least once
Attempted(r) ==
    \/ published[r] > 0
    \/ recorded[r] > 0
    \/ \E d \in Dispatchers :
          pc[d] \in {"markSent", "markFailed"} /\ events[d][idx[d]].ID = r

\* publishEvent is called for row r in this step
PublishAttempt(r) ==
    \E d \in Dispatchers :
        /\ pc[d] = "publish"
        /\ pc'[d] \in {"markSent", "markFailed"}
        /\ events[d][idx[d]].ID = r

\* C30: with one dispatcher process and rows that are all eligible when it
\* claims, a row created earlier gets its first publish attempt before a row
\* created later; a claimed batch is in ascending created_at order and is
\* published in that order; only a row that failed before (retrying) is
\* published after rows created later than it.
C30_FirstAttemptFIFO ==
    /\ [](\A a \in RowIds : \A b \in RowIds :
            (outbox[a].created_at < outbox[b].created_at /\ Attempted(b)) => Attempted(a))
    /\ [](\A d \in Dispatchers : \A i \in DOMAIN events[d] : \A j \in DOMAIN events[d] :
            i < j => outbox[events[d][i].ID].created_at <= outbox[events[d][j].ID].created_at)
    /\ [][\A r \in RowIds :
            PublishAttempt(r) =>
                /\ \A d \in Dispatchers : \A i \in DOMAIN events[d] :
                      (pc[d] = "publish" /\ events[d][idx[d]].ID = r /\ i < idx[d]) =>
                          Attempted(events[d][i].ID)
                /\ (\E q \in RowIds :
                        outbox[q].created_at > outbox[r].created_at /\ Attempted(q)) =>
                      (recorded[r] > 0 /\ outbox[r].attempts > 0)]_vars

\* a row whose first publish failed waits in retrying, unpublished, while a
\* row created after it has been sent
C30_Witness ==
    \E a \in RowIds : \E b \in RowIds :
        /\ outbox[a].created_at < outbox[b].created_at
        /\ outbox[a].status = outboxStatusRetry
        /\ published[a] = 0
        /\ outbox[b].status = outboxStatusSent
        /\ published[b] = 1

\* 2^min(k, 5), written out
BackoffFactor(k) == IF k >= 5 THEN 32 ELSE <<1, 2, 4, 8, 16>>[k + 1]

\* min(max, base * 2^min(k, 5)) for the retryBackoff of the model
ExpectedDelay(k) ==
    IF backoff.r.base * BackoffFactor(k) > backoff.r.max
    THEN backoff.r.max
    ELSE backoff.r.base * BackoffFactor(k)

ExpectedWindow ==
    IF backoff.r.base >= 2 THEN backoff.r.base \div 2 ELSE DefaultJitterWindow

C32_FindingsFallback ==
    [][GrantedReturns =>
          /\ lastHandle'.fallback \in {"skipped", "upserted", "failed"}
          /\ lastHandle'.fallback # "skipped" <=>
                (lastHandle'.okManifests = 0 /\ stream[pos].Findings > 0)
          /\ lastHandle'.fallback = "upserted" =>
                /\ lastHandle'.upserts = 1
                /\ lastHandle'.successful = 1
                /\ Len(sboms') \in {Len(sboms), Len(sboms) + 1}
                /\ \E i \in DOMAIN sboms' :
                      /\ sboms'[i].project_name = stream[pos].Project
                      /\ sboms'[i].source = "auto-code-scan"
                      /\ \A k \in DOMAIN sboms : k # i => sboms'[k] = sboms[k]
                      /\ i > Len(sboms) =>
                            ExistingSBOM(sboms, sboms'[i].project_name, sboms'[i].manifest_name) = {}
                /\ lastHandle'.enqueued = <<"sbom.batch_created">>
          /\ lastHandle'.fallback = "failed" =>
                /\ lastHandle'.ret = ErrTransient
                /\ outcome'[pos] = ErrTransient
                /\ cpc' = "sleep"
                /\ lastHandle'.enqueued = <<>>
                /\ lastHandle'.upserts = 0
                /\ lastHandle'.successful = 0
                /\ sboms' = sboms
                /\ outbox' = outbox
          /\ lastHandle'.fallback = "skipped" =>
                lastHandle'.successful = lastHandle'.okManifests]_vars

\* every manifest of an event with findings failed, the fallback upserted
\* the one SBOM of the table, and the message was committed
C32_Witness ==
    /\ lastHandle.fallback = "upserted"
    /\ lastHandle.parsed >= 1
    /\ lastHandle.okManifests = 0
    /\ Len(sboms) = 1
    /\ sboms[1].source = "auto-code-scan"
    /\ 1 \in committed

\* the envelope branch of decodeCodeScanEvent was taken and the payload read
EnvelopeDecoded ==
    /\ "envelope" \in codec.decoded
    /\ codec.wire.type # ""
    /\ codec.wire.data = "object"

\* the payload event types written out in normal form
ExpectedPayloadType ==
    [t \in {"CODE_SCAN_DONE", " code.scan.done ", "CODE_SCAN_STARTED"} |->
        IF t = "CODE_SCAN_STARTED" THEN "CODE_SCAN_STARTED" ELSE "CODE_SCAN_DONE"]

\* the envelope types written out in normal form; a blank type has none
ExpectedEnvelopeType ==
    [t \in {" ", "code.scan.done", "code.scan.started"} |->
        IF t = "code.scan.started" THEN "CODE_SCAN_STARTED" ELSE "CODE_SCAN_DONE"]

\* C33 as stated: in the envelope shape a payload event_type that is empty
\* after trimming decodes to CODE_SCAN_DONE whatever the non-empty envelope
\* type is, and the event is not skipped; a non-empty event_type is trimmed,
\* upper-cased, dots replaced by underscores.
C33_EmptyEventTypeIsDone ==
    EnvelopeDecoded =>
        IF codec.wire.payload.event_type \in {"", " "}
        THEN /\ codec.envelope.EventType = "CODE_SCAN_DONE"
             /\ processOutcome(codec.envelope) # "skip"
        ELSE codec.envelope.EventType = ExpectedPayloadType[codec.wire.payload.event_type]

\* C33 amended: in the envelope shape a payload event_type that is empty
\* after trimming decodes to the envelope type trimmed, upper-cased, dots
\* replaced by underscores, and to CODE_SCAN_DONE only when the envelope
\* type is blank too or is itself a spelling of CODE_SCAN_DONE; the event
\* is skipped exactly when it is valid and the type is another one; a
\* non-empty event_type is trimmed, upper-cased, dots replaced by
\* underscores.
C33_EmptyEventTypeIsEnvelopeType ==
    EnvelopeDecoded =>
        /\ codec.envelope.EventType =
              IF codec.wire.payload.event_type \in {"", " "}
              THEN ExpectedEnvelopeType[codec.wire.type]
              ELSE ExpectedPayloadType[codec.wire.payload.event_type]
        /\ processOutcome(codec.envelope) = "skip" <=>
              /\ codec.envelope.EventType = "CODE_SCAN_STARTED"
              /\ codec.envelope.ProjectID # 0
              /\ codec.envelope.Project = "web"

\* an envelope of blank type whose payload has a blank event_type was
\* decoded to CODE_SCAN_DONE and is accepted
C33_Witness ==
    /\ EnvelopeDecoded
    /\ codec.wire.type = " "
    /\ codec.wire.payload.event_type = " "
    /\ codec.envelope.EventType = "CODE_SCAN_DONE"
    /\ processOutcome(codec.envelope) = "accept"

\* C34: the envelope message and the legacy message carrying the same
\* payload fields and timestamp decode to equal events and end in the same
\* accept, skip or permanent-error outcome.
C34_ShapesEquivalent ==
    (EnvelopeDecoded /\ "legacy" \in codec.decoded) =>
        /\ codec.envelope = codec.legacy
        /\ processOutcome(codec.envelope) = processOutcome(codec.legacy)

\* C35: every row of the outbox has 0 <= attempts <= 12; a pending row has
\* attempts 0 and no next_retry_at; a retrying row has 1 <= attempts <= 11,
\* a next_retry_at and a last_error; a failed row has attempts 12 and no
\* next_retry_at; a sent row has neither next_retry_at nor last_error.
C35_RowInvariants ==
    \A r \in RowIds :
        /\ outbox[r].attempts >= 0 /\ outbox[r].attempts <= 12
        /\ outbox[r].status = outboxStatusPending =>
              outbox[r].attempts = 0 /\ outbox[r].next_retry_at = NULL
        /\ outbox[r].status = outboxStatusRetry =>
              /\ outbox[r].attempts >= 1 /\ outbox[r].attempts <= 11
              /\ outbox[r].next_retry_at # NULL
              /\ outbox[r].last_error # NullText
        /\ outbox[r].status = outboxStatusFailed =>
              outbox[r].attempts = 12 /\ outbox[r].next_retry_at = NULL
        /\ outbox[r].status = outboxStatusSent =>
              outbox[r].next_retry_at = NULL /\ outbox[r].last_error = NullText

\* markFailed took one row to failed at the cap and another, enqueued in
\* this run, to retrying after its first failed publish
C35_Witness ==
    \E r1 \in RowIds : \E r2 \in RowIds :
        /\ outbox[r1].status = outboxStatusFailed
        /\ outbox[r1].attempts = 12
        /\ recorded[r1] = 12
        /\ outbox[r2].status = outboxStatusRetry
        /\ outbox[r2].attempts = 1
        /\ recorded[r2] = 1

\* the manifests of the event that carry content
WithContent(evt) == {i \in DOMAIN evt.Manifests : evt.Manifests[i].content # ""}

\* the larger of two numbers
Larger(a, b) == IF a >= b THEN a ELSE b

\* C36: when handleCodeScanDone returns after the reservation, reserved is
\* the larger of 1 and the number of manifests with content, successful is
\* between 0 and reserved, ReleaseUnusedUsage runs once with exactly these
\* two, and the amount it reverts, reserved - successful, is between 0 and
\* reserved: the usage ends between what it was before the reservation and
\* that plus reserved.
C36_SuccessfulWithinReserved ==
    [][GrantedReturns =>
          LET reserved == Larger(1, Cardinality(WithContent(stream[pos])))
              released == lastHandle'.released
          IN  /\ lastHandle'.toCreate = reserved
              /\ lastHandle'.successful >= 0
              /\ lastHandle'.successful <= reserved
              /\ Len(released) = 1
              /\ released[1][1] = reserved
              /\ released[1][2] = lastHandle'.successful
              /\ released[1][1] - released[1][2] >= 0
              /\ released[1][1] - released[1][2] <= reserved
              /\ usage' >= usage
              /\ usage' <= usage + reserved]_vars

\* an event without manifests reserved one unit and its fallback used it:
\* nothing was left to revert
C36_Witness ==
    /\ lastHandle.allowed = "yes"
    /\ lastHandle.fallback = "upserted"
    /\ lastHandle.parsed = 0
    /\ lastHandle.released = <<<<1, 1>>>>
    /\ usage = 1

\* C37: handleCodeScanDone hands a sbom.batch_created event to
\* EnqueueOutboxEvent only when it upserted at least one SBOM in the same
\* invocation; when every manifest failed and the event has no findings,
\* so that the whole reservation is released, it hands over none and the
\* outbox gains no row.
C37_BatchEventNeedsSBOM ==
    [][GrantedReturns =>
          /\ lastHandle'.enqueued = <<"sbom.batch_created">> => lastHandle'.successful >= 1
          /\ (lastHandle'.okManifests = 0 /\ stream[pos].Findings = 0) =>
                /\ lastHandle'.enqueued = <<>>
                /\ outbox' = outbox]_vars

\* the event types publishKafkaWarning is called with
WarningTypes == {"sbom.limit_reached", "sbom.limit_check_failed", "sbom.org_lookup_failed"}

\* the rows of the outbox that carry a warning
WarningRows == {r \in RowIds : outbox[r].payload \in WarningTypes}

\* the messages FetchMessage has returned so far
Fetched == {stream[i] : i \in 1..pos}

\* C38: the outbox holds at most one warning row for each inbound message
\* fetched so far, however often the consumer has retried the message after
\* a transient error.
C38_OneWarningPerMessage ==
    Cardinality(WarningRows) <= Cardinality(Fetched)

\* C39: under every interleaving of UpsertSBOM calls, the sboms table holds
\* at most one row for each (project_name, manifest_name), and every call
\* that has returned, unless its summary did not parse or the database
\* failed its statement, gave back without error the id of the row of its
\* pair.
C39_OneRowPerPair ==
    /\ \A m \in UpsertManifests : Cardinality(ExistingSBOM(ups.table, "web", m)) <= 1
    /\ \A c \in Callers :
          (ups.calls[c].pc = "done" /\ ups.calls[c].err \notin {"summary", "db"}) =>
              /\ ups.calls[c].err = "nil"
              /\ ExistingSBOM(ups.table, "web", ups.calls[c].manifest) = {ups.calls[c].id}

\* main has closed the database handle and run CloseKafkaWriters, and the
\* process has not exited yet
AfterClose == shut.main = "return"

\* C40: once main has closed the database handle and run CloseKafkaWriters,
\* the dispatcher takes no further step of claim, publish or mark (it may
\* only return from run), no row and no writer changes, on the signal path
\* and on the server-error path; and getKafkaWriter never returns a writer
\* that is closed.
C40_QuietAfterClose ==
    [][/\ AfterClose =>
            /\ \A d \in Dispatchers : pc'[d] # pc[d] => pc'[d] = "stopped"
            /\ idx' = idx
            /\ outbox' = outbox
            /\ published' = published
            /\ writers' = writers
       /\ shut'.got # "closed"]_vars

====
